---- MODULE Spec2Model ----
(***************************************************************************)
(* B-Client coordinator: the WebSocket registry (three indices), the       *)
(* NodeManager hierarchy pools, the credential store, the logout barrier, *)
(* the session broker, cluster attestation, the RPC dispatcher and the     *)
(* activity fan-out.                                                       *)
(* Steps are taken at the granularity of the awaits of the handlers.       *)
(***************************************************************************)
EXTENDS Integers, Sequences, FiniteSets, TLC

\* ----------------------------------------------------------------- bounds
NumSockets == 2
MaxDeliveries == 2
MaxPolls == 2
MaxReplies == 2
\* The capacity of a tier (1000 children in the code), scaled down
MaxChildren == 2

\* ------------------------------------------------------------- universes
None == "none"
Users == <<"u1", "u2">>
Clients == <<"cX", "cY", "cZ">>
Nodes == <<"n1", "n2", "n3">>
\* The sockets that connect in the environments below; the pairing environment
\* needs one more (a session that made the code and two that present it).
Connecting == 1..NumSockets
Sockets == 1..(NumSockets + 1)

\* The placement commands of send_to_c_client, in the order of the tiers, and the
\* request ids: one request per socket and command
Commands == <<"new_domain_node", "new_cluster_node", "new_channel_node">>
Requests == Sockets \X {Commands[i] : i \in 1..3}

\* The calls of send_session_to_client that may be in progress at once
Deliveries == 1..MaxDeliveries

VARIABLES
    wsState,                  \* transport of each socket: new / open / closed (the
                              \* peer or the network ended it) / closed_1000 (the
                              \* server's close(code=1000))
    wsMeta,                   \* attributes set on the websocket at registration
    logout_in_progress,       \* websocket._logout_in_progress is present
    closed_by_logout,         \* websocket._closed_by_logout
    logout_feedback_tracking, \* websocket._logout_feedback_tracking is present
    node_connections,
    user_connections,
    client_connections,
    connection,               \* the ClientConnection object created for each socket
    nodemanager_connection,   \* websocket.nodemanager_connection (0: absent)
    domain_pool,
    cluster_pool,
    channel_pool,
    domain_node_index,
    cluster_node_index,
    channel_node_index,
    nm_task,                  \* _handle_node_management_async of each socket: none / rpc / done
    pending_requests,         \* request ids with an entry in the dict
    future,                   \* the asyncio.Future of each request
    set_result_calls,         \* how often future.set_result ran for each request
    late_calls,               \* how often _process_late_response ran for each request
    replies,                  \* responses sent by the C-Client for each request
    late_parent,              \* the command whose late reply the message loop of each
                              \* socket is processing, suspended in the next request
    security_code_record,     \* the user whose code row the registration handler of
                              \* each socket has read and not yet deleted, while the
                              \* handler is suspended in between (None otherwise)
    pending_batches,          \* SyncManager.pending_batches: batch id -> batch info
    forward_task,             \* the _forward_to_channel_nodes task: its position in
                              \* the channel's list and its local forwarded_count
    batch_forward,            \* the sync_data of the user_activities_batch_forward
                              \* frame a C-Client holds and has not yet acknowledged,
                              \* by socket
    feedback_task,            \* the socket of the created _send_batch_feedback task
                              \* that has not run yet (0: none)
    source_feedback,          \* the user_activities_batch_feedback frame written to
                              \* the sender of a batch, by socket
    security_codes,           \* users with a UserSecurityCode row
    cookie,                   \* users with a UserCookie row
    account,                  \* UserAccount row of each user: none / in / out (logout = True)
    lo,                       \* the /bind logout request in flight and its barrier
    user_logout_sent,         \* sockets a user_logout frame was written to
    broker_tasks,             \* scheduled send_session_if_appropriate(user_id, websocket)
    store,                    \* the C-Node behind each socket: its first record of the batch
    bk,                       \* the send_session_if_appropriate run of each socket
    connection_cluster_verification, \* sockets with a verification instance, in dict order
    cv_requests,              \* verification frames written to C-Nodes and not yet answered
    cluster_verification_result,     \* websocket.cluster_verification_result
    auto_login,               \* the last auto_login frame written to each socket
    registration_reply,       \* the last registration_success / registration_rejected
                              \* frame written to each socket
    new_device_login,         \* the registration handlers suspended in the close of
                              \* an old connection of their client, by socket
    assign,                   \* assign_new_client of each socket on its probing path:
                              \* the assign_to_* call it is in and the request it awaits
    peer_advisory,            \* the add_new_*_to_peers frames written to C-Clients
    feedback_unmatched,       \* the client ids of the logout_feedback frames for which
                              \* no tracking dict was found
    session_send,             \* the calls of send_session_to_client in progress: the
                              \* locals of each and the await it is suspended in
    feedback_tracking,        \* the feedback_tracking dict of each call: the
                              \* connections marked True
    session_feedback_tracking \* websocket._session_feedback_tracking: the call whose
                              \* dict the attribute refers to (0: absent)

regVars == <<node_connections, user_connections, client_connections>>
flagVars == <<logout_in_progress, closed_by_logout, logout_feedback_tracking>>
poolVars == <<domain_pool, cluster_pool, channel_pool,
              domain_node_index, cluster_node_index, channel_node_index>>
nmVars == <<connection, nodemanager_connection, poolVars>>
rpcVars == <<pending_requests, future, set_result_calls, late_calls, replies, late_parent>>
taskVars == <<nm_task, broker_tasks, rpcVars, security_code_record>>
dbVars == <<security_codes, cookie, account>>
loVars == <<lo, user_logout_sent>>
cvVars == <<bk, connection_cluster_verification, cv_requests, cluster_verification_result,
            auto_login>>
syncVars == <<pending_batches, forward_task, batch_forward, feedback_task, source_feedback>>
attVars == <<store, cvVars, syncVars>>
probeVars == <<assign, peer_advisory>>
sessionVars == <<session_send, feedback_tracking, session_feedback_tracking>>
feedbackVars == <<feedback_unmatched, sessionVars>>
handlerVars == <<registration_reply, new_device_login, probeVars, feedbackVars>>
vars == <<wsState, wsMeta, handlerVars, flagVars, regVars, nmVars, taskVars, dbVars, loVars,
          attVars>>

NoMeta == [user_id |-> None, loop_user_id |-> None, client_id |-> None, node_id |-> None,
           domain_id |-> None, cluster_id |-> None, channel_id |-> None]

NoLogout == [pc |-> "idle", user_id |-> None, client_id |-> None, present |-> {},
             user_websockets |-> <<>>, feedback_received |-> {}, polls |-> 0, next |-> 1]

NoConn == [websocket |-> 0, node_id |-> None, domain_id |-> None, cluster_id |-> None,
           channel_id |-> None, is_domain_main_node |-> FALSE,
           is_cluster_main_node |-> FALSE, is_channel_main_node |-> FALSE]

\* First records a C-Node may hold for the batch: dicts that differ in a value or in a key
Records == {[k1 |-> 1], [k1 |-> 2], [k1 |-> 1, k2 |-> 1]}
NoRecord == [absent |-> 1]

\* Keys of response_events / pending_responses: a node id, or client_<user_id>
NoKey == [kind |-> "none", id |-> None]
NodeKey(n) == [kind |-> "node", id |-> n]
ClientKey(u) == [kind |-> "client", id |-> u]

\* A cluster_verification_response as stored in pending_responses
NoData == [success |-> FALSE, batch_id |-> None, record |-> NoRecord]

\* The dict returned by initiate_cluster_verification
NoResult == [present |-> FALSE, success |-> FALSE, is_new_user |-> FALSE,
             verification_passed |-> FALSE]
Result(success, is_new_user, verification_passed) ==
    [present |-> TRUE, success |-> success, is_new_user |-> is_new_user,
     verification_passed |-> verification_passed]

\* An auto_login frame: its cluster_verification field
NoFrame == [sent |-> FALSE, cluster_verification |-> NoResult]

\* The locals of a call of send_session_to_client. connections is the list object
\* of user_connections[user_id] (own: the list was replaced in the dict and the
\* call holds the old one); fresh: an attempt was started in the step.
NoSend == [pc |-> "idle", user_id |-> None, own |-> FALSE, connections |-> <<>>, i |-> 1,
           websocket |-> 0, successful_connections |-> {}, attempt |-> 0,
           fresh |-> FALSE]

\* A registration frame: its type and user_id
NoReply == [type |-> None, user_id |-> None]

\* The locals of a registration handler that is not suspended
NoLogin == [pc |-> "idle", user_id |-> None, client_id |-> None, ids |-> None]

\* assign_new_client while it probes the existing tiers. level, tier: the
\* assign_to_<level> call it is in and the ids of the calls around it; i: the
\* positions of the loops over the domains, over the members of the domain and over
\* the members of the cluster; own: the call is the one on the tier the session has
\* just created; chain: new_channel_node was called by new_cluster_node; probe: what
\* count_peers gave for the tier; request: the request id awaited; targets: the
\* sockets of the gather of add_new_node_to_peers.
NoTier == [domain |-> None, cluster |-> None, channel |-> None]
NoAssign == [pc |-> "idle", level |-> None, tier |-> NoTier,
             i |-> [domain |-> 0, cluster |-> 0, channel |-> 0],
             own |-> [domain |-> FALSE, cluster |-> FALSE, channel |-> FALSE],
             chain |-> FALSE, probe |-> None, request |-> <<0, None>>, targets |-> {}]

\* The forward task of a batch
NoForward == [pc |-> "idle", source |-> 0, user_id |-> None, channel_id |-> None,
              sync_data |-> <<>>, i |-> 0, forwarded_count |-> 0]

\* A send_session_if_appropriate coroutine and its ClusterVerificationService instance.
\* fault: a query of the run timed out or its send raised; blocked: the run returned
\* False because should_send_session was False.
IdleRun == [pc |-> "idle", user_id |-> None, nodes |-> <<>>, key |-> NoKey,
            is_set |-> FALSE, pending |-> NoData, valid_batch |-> NoData,
            attempt |-> 0, fault |-> FALSE, blocked |-> FALSE]

\* ------------------------------------------------------------ dictionaries
\* A Python dict is a function whose DOMAIN is its key set.
DictDel(d, k) == [x \in (DOMAIN d) \ {k} |-> d[x]]

DictPut(d, k, v) == [x \in (DOMAIN d) \cup {k} |-> IF x = k THEN v ELSE d[x]]

DictGet(d, k) == IF k \in DOMAIN d THEN d[k] ELSE <<>>

SeqToSet(s) == {s[i] : i \in 1..Len(s)}

\* list.remove(x): drops the first occurrence only
ListRemove(s, x) ==
    IF x \notin SeqToSet(s) THEN s
    ELSE LET i == CHOOSE j \in 1..Len(s) : s[j] = x /\ \A k \in 1..(j - 1) : s[k] # x
         IN  SubSeq(s, 1, i - 1) \o SubSeq(s, i + 1, Len(s))

\* for every bucket holding ws: bucket.remove(ws); an emptied bucket is deleted
\* A removal that leaves every bucket as it is
PoolRemove_keeps_the_socket(d, ws) == d

PoolRemove(d, ws) ==
    LET keep == {k \in DOMAIN d : ListRemove(d[k], ws) # <<>>}
    IN  [k \in keep |-> ListRemove(d[k], ws)]

\* ------------------------------------------------------- validity predicates
\* A validity predicate that looks at the transport only
is_connection_valid_transport_only(ws, lip, trk, cbl, st) == st[ws] = "open"

is_connection_valid(ws, lip, trk, cbl, st) ==
    IF lip[ws] THEN TRUE
    ELSE IF trk[ws] THEN TRUE
    ELSE IF cbl[ws] THEN FALSE
    ELSE st[ws] = "open"

_is_websocket_valid(ws, cbl, st) ==
    IF cbl[ws] THEN FALSE
    ELSE st[ws] = "open"

\* The registry's predicate on the current state
Valid(w) == is_connection_valid(w, logout_in_progress, logout_feedback_tracking,
                                closed_by_logout, wsState)

\* --------------------------------------------------------------- registry
\* The three indices as one record, so that a handler's successive updates compose.
Registry == [node |-> node_connections, user |-> user_connections,
             client |-> client_connections]

remove_invalid_connection(R, ws) ==
    [node |-> PoolRemove(R.node, ws), client |-> PoolRemove(R.client, ws),
     user |-> PoolRemove(R.user, ws)]

InRegistry(R, ws) ==
    \/ \E k \in DOMAIN R.node : ws \in SeqToSet(R.node[k])
    \/ \E k \in DOMAIN R.user : ws \in SeqToSet(R.user[k])
    \/ \E k \in DOMAIN R.client : ws \in SeqToSet(R.client[k])

cleanup_invalid_connections(R, lip, trk, cbl, st) ==
    LET bad == {w \in Sockets : ~is_connection_valid(w, lip, trk, cbl, st)}
        sweep(d) ==
            LET keep == {k \in DOMAIN d : SelectSeq(d[k], LAMBDA w : w \notin bad) # <<>>}
            IN  [k \in keep |-> SelectSeq(d[k], LAMBDA w : w \notin bad)]
    IN  [node |-> sweep(R.node), user |-> sweep(R.user), client |-> sweep(R.client)]

\* ---------------------------------------------------------- NodeManager
Levels == <<"domain", "cluster", "channel">>

IdOf(conn, level) ==
    IF level = "domain" THEN conn.domain_id
    ELSE IF level = "cluster" THEN conn.cluster_id
    ELSE conn.channel_id

WithId(conn, level, id) ==
    IF level = "domain" THEN [conn EXCEPT !.domain_id = id]
    ELSE IF level = "cluster" THEN [conn EXCEPT !.cluster_id = id]
    ELSE [conn EXCEPT !.channel_id = id]

\* The NodeManager's pools, indexes and ClientConnection objects as one record;
\* err records an exception raised inside a NodeManager method.
NodeMgr ==
    [connection |-> connection,
     pool |-> [domain |-> domain_pool, cluster |-> cluster_pool, channel |-> channel_pool],
     index |-> [domain |-> domain_node_index, cluster |-> cluster_node_index,
                channel |-> channel_node_index],
     err |-> FALSE]

\* add_to_domain_pool / add_to_cluster_pool / add_to_channel_pool
add_to_pool(N, level, id, c) ==
    LET pool0 == IF id \in DOMAIN N.pool[level] THEN N.pool[level]
                 ELSE DictPut(N.pool[level], id, <<>>)
        index0 == IF id \in DOMAIN N.pool[level] THEN N.index[level]
                  ELSE DictPut(N.index[level], id, <<>>)
        node == N.connection[c].node_id
    IN  IF id \notin DOMAIN index0
        THEN [N EXCEPT !.err = TRUE]
        ELSE IF node \in DOMAIN index0[id]
        THEN LET existing == index0[id][node]
             IN  [N EXCEPT !.pool[level] = pool0, !.index[level] = index0,
                           !.connection[existing].websocket = N.connection[c].websocket,
                           !.connection[existing].is_channel_main_node =
                               N.connection[c].is_channel_main_node]
        ELSE [N EXCEPT !.pool[level] = DictPut(pool0, id, Append(pool0[id], c)),
                       !.index[level] = DictPut(index0, id, DictPut(index0[id], node, c)),
                       !.connection[c] = WithId(N.connection[c], level, id)]

_should_remove_channel_pool(N, id, cbl, st) ==
    IF id \notin DOMAIN N.pool.channel THEN TRUE
    ELSE LET remaining == N.pool.channel[id]
         IN  IF remaining = <<>> THEN TRUE
             ELSE IF Len(remaining) = 1
             THEN /\ N.connection[remaining[1]].is_channel_main_node
                  /\ ~_is_websocket_valid(N.connection[remaining[1]].websocket, cbl, st)
             ELSE FALSE

_should_remove_cluster_pool(N, id) ==
    IF id \notin DOMAIN N.pool.cluster THEN TRUE
    ELSE LET remaining == N.pool.cluster[id]
         IN  IF remaining = <<>> THEN TRUE
             ELSE ~\E i \in 1..Len(remaining) :
                      /\ N.connection[remaining[i]].channel_id # None
                      /\ N.connection[remaining[i]].channel_id \in DOMAIN N.pool.channel

_should_remove_domain_pool(N, id) ==
    IF id \notin DOMAIN N.pool.domain THEN TRUE
    ELSE LET remaining == N.pool.domain[id]
         IN  IF remaining = <<>> THEN TRUE
             ELSE ~\E i \in 1..Len(remaining) :
                      /\ N.connection[remaining[i]].cluster_id # None
                      /\ N.connection[remaining[i]].cluster_id \in DOMAIN N.pool.cluster

_should_remove_pool(N, level, id, cbl, st) ==
    IF level = "channel" THEN _should_remove_channel_pool(N, id, cbl, st)
    ELSE IF level = "cluster" THEN _should_remove_cluster_pool(N, id)
    ELSE _should_remove_domain_pool(N, id)

\* One of the three blocks of remove_connection; conn is a ClientConnection record.
RemoveAtLevel(N, level, conn, cbl, st) ==
    LET id == IdOf(conn, level)
    IN  IF N.err \/ id = None \/ id \notin DOMAIN N.pool[level] THEN N
        ELSE IF id \notin DOMAIN N.index[level] THEN [N EXCEPT !.err = TRUE]
        ELSE IF conn.node_id \notin DOMAIN N.index[level][id] THEN N
        ELSE LET N1 == [N EXCEPT
                     !.index[level][id] = DictDel(N.index[level][id], conn.node_id),
                     !.pool[level][id] = SelectSeq(N.pool[level][id],
                         LAMBDA c : N.connection[c].node_id # conn.node_id)]
             IN  IF _should_remove_pool(N1, level, id, cbl, st)
                 THEN [N1 EXCEPT !.pool[level] = DictDel(N1.pool[level], id),
                                 !.index[level] = DictDel(N1.index[level], id)]
                 ELSE N1

\* The element of a one-element set: {F(y) : y \in {e}} applies F to the value of e,
\* which is evaluated once, as a Python local is.
TheOne(S) == CHOOSE r \in S : TRUE

remove_connection(N, conn, cbl, st) ==
    TheOne({RemoveAtLevel(N2, "domain", conn, cbl, st) :
               N2 \in {RemoveAtLevel(N1, "cluster", conn, cbl, st) :
                          N1 \in {RemoveAtLevel(N, "channel", conn, cbl, st)}}})

\* Tier ids in the order the pools' dicts are walked
TierIds(level) ==
    IF level = "domain" THEN <<"d1", "d2", "d3", "d4", "d5">>
    ELSE IF level = "cluster" THEN <<"k1", "k2", "k3", "k4", "k5">>
    ELSE <<"ch1", "ch2", "ch3", "ch4", "ch5">>

RECURSIVE Flatten(_)
Flatten(ss) == IF ss = <<>> THEN <<>> ELSE Head(ss) \o Flatten(Tail(ss))

\* for pool in (domain_pool, cluster_pool, channel_pool): for pool_id, connections in pool.items()
PoolWalk(N) ==
    Flatten([i \in 1..3 |->
        Flatten([j \in 1..Len(TierIds(Levels[i])) |->
            DictGet(N.pool[Levels[i]], TierIds(Levels[i])[j])])])

InPools(N, c) == c \in SeqToSet(PoolWalk(N))

RECURSIVE RemoveAll(_, _, _, _)
RemoveAll(N, todo, cbl, st) ==
    IF todo = <<>> \/ N.err THEN N
    ELSE TheOne({RemoveAll(p[1], p[2], cbl, st) :
                    p \in {<<remove_connection(N, N.connection[Head(todo)], cbl, st),
                             Tail(todo)>>}})

cleanup_disconnected_connections(N, cbl, st) ==
    TheOne({RemoveAll(N, disconnected_connections, cbl, st) :
               disconnected_connections \in
                   {SelectSeq(PoolWalk(N),
                        LAMBDA c : ~_is_websocket_valid(N.connection[c].websocket, cbl, st))}})

\* _sync_disconnection_to_nodemanager: the stored ClientConnection, else a minimal one
\* built from the websocket's attributes; an exception of remove_connection is swallowed.
MinimalConnection(ws, meta) ==
    [websocket |-> ws, node_id |-> meta[ws].node_id, domain_id |-> meta[ws].domain_id,
     cluster_id |-> meta[ws].cluster_id, channel_id |-> meta[ws].channel_id,
     is_domain_main_node |-> FALSE, is_cluster_main_node |-> FALSE,
     is_channel_main_node |-> FALSE]

_sync_disconnection_to_nodemanager(N, nmc, ws, meta, cbl, st) ==
    LET conn == IF nmc[ws] # 0 THEN N.connection[nmc[ws]] ELSE MinimalConnection(ws, meta)
    IN  [remove_connection(N, conn, cbl, st) EXCEPT !.err = FALSE]

Init ==
    /\ wsState = [w \in Sockets |-> "new"]
    /\ wsMeta = [w \in Sockets |-> NoMeta]
    /\ logout_in_progress = [w \in Sockets |-> FALSE]
    /\ closed_by_logout = [w \in Sockets |-> FALSE]
    /\ logout_feedback_tracking = [w \in Sockets |-> FALSE]
    /\ node_connections = <<>>
    /\ user_connections = <<>>
    /\ client_connections = <<>>
    /\ connection = [w \in Sockets |-> NoConn]
    /\ nodemanager_connection = [w \in Sockets |-> 0]
    /\ domain_pool = <<>>
    /\ cluster_pool = <<>>
    /\ channel_pool = <<>>
    /\ domain_node_index = <<>>
    /\ cluster_node_index = <<>>
    /\ channel_node_index = <<>>
    /\ nm_task = [w \in Sockets |-> "none"]
    /\ pending_requests = {}
    /\ future = [r \in Requests |-> "none"]
    /\ set_result_calls = [r \in Requests |-> 0]
    /\ late_calls = [r \in Requests |-> 0]
    /\ replies = [r \in Requests |-> 0]
    /\ late_parent = [w \in Sockets |-> None]
    /\ security_code_record = [w \in Sockets |-> None]
    /\ security_codes = {}
    /\ cookie = {Users[i] : i \in 1..Len(Users)}
    /\ account = [u \in {Users[i] : i \in 1..Len(Users)} |-> "in"]
    /\ lo = NoLogout
    /\ user_logout_sent = {}
    /\ broker_tasks = {}
    /\ store = [w \in Sockets |-> NoRecord]
    /\ pending_batches = <<>>
    /\ forward_task = NoForward
    /\ batch_forward = <<>>
    /\ feedback_task = 0
    /\ source_feedback = [w \in Sockets |-> None]
    /\ bk = [w \in Sockets |-> IdleRun]
    /\ connection_cluster_verification = <<>>
    /\ cv_requests = {}
    /\ cluster_verification_result = [w \in Sockets |-> NoResult]
    /\ auto_login = [w \in Sockets |-> NoFrame]
    /\ registration_reply = [w \in Sockets |-> NoReply]
    /\ new_device_login = [w \in Sockets |-> NoLogin]
    /\ assign = [w \in Sockets |-> NoAssign]
    /\ peer_advisory = {}
    /\ feedback_unmatched = {}
    /\ session_send = [d \in Deliveries |-> NoSend]
    /\ feedback_tracking = [d \in Deliveries |-> {}]
    /\ session_feedback_tracking = [w \in Sockets |-> 0]

\* remove_connection_from_all_pools, on X = [R, N, nmc]
\* A finally block that leaves the socket where it is
remove_connection_from_all_pools_skipped(X, ws, meta, cbl, st) == X

remove_connection_from_all_pools(X, ws, meta, cbl, st) ==
    IF ~InRegistry(X.R, ws) THEN X
    ELSE LET N1 == remove_connection(X.N,
                       IF X.nmc[ws] # 0 THEN X.N.connection[X.nmc[ws]]
                       ELSE MinimalConnection(ws, meta), cbl, st)
         IN  [R |-> remove_invalid_connection(X.R, ws),
              N |-> [N1 EXCEPT !.err = FALSE],
              nmc |-> IF N1.err THEN X.nmc ELSE [X.nmc EXCEPT ![ws] = 0]]

RECURSIVE RemoveEach(_, _, _, _, _)
RemoveEach(X, todo, meta, cbl, st) ==
    IF todo = <<>> THEN X
    ELSE RemoveEach(remove_connection_from_all_pools(X, Head(todo), meta, cbl, st),
                    Tail(todo), meta, cbl, st)

\* sockets that check_duplicate_registration compares with the new one
DuplicateCandidates(R, meta, node_id, client_id, user_id, new_websocket) ==
    {x \in (SeqToSet(DictGet(R.node, node_id)) \cup SeqToSet(DictGet(R.client, client_id))
              \cup SeqToSet(DictGet(R.user, user_id))) \ {new_websocket} :
        /\ meta[x].node_id = node_id
        /\ meta[x].client_id = client_id
        /\ meta[x].user_id = user_id}

\* A search that returns the newest socket of the node's bucket
find_existing_connection_newest(R, meta, node_id, client_id, user_id) ==
    DictGet(R.node, node_id)[Len(DictGet(R.node, node_id))]

\* find_existing_connection: the first socket of the node's bucket with the client
\* and the user, else of the client's bucket, else of the user's bucket; 0 for None
find_existing_connection(R, meta, node_id, client_id, user_id) ==
    LET inNode == SelectSeq(DictGet(R.node, node_id),
                      LAMBDA x : meta[x].client_id = client_id /\ meta[x].user_id = user_id)
        inClient == SelectSeq(DictGet(R.client, client_id),
                        LAMBDA x : meta[x].node_id = node_id /\ meta[x].user_id = user_id)
        inUser == SelectSeq(DictGet(R.user, user_id),
                      LAMBDA x : meta[x].node_id = node_id /\ meta[x].client_id = client_id)
    IN  IF inNode # <<>> THEN inNode[1]
        ELSE IF inClient # <<>> THEN inClient[1]
        ELSE IF inUser # <<>> THEN inUser[1]
        ELSE 0

RECURSIVE RemoveInvalidSet(_, _)
RemoveInvalidSet(R, todo) ==
    IF todo = {} THEN R
    ELSE LET x == CHOOSE y \in todo : TRUE
         IN  RemoveInvalidSet(remove_invalid_connection(R, x), todo \ {x})

\* remove_user_from_client
remove_user_from_client(R, meta, user_id, client_id) ==
    IF user_id \notin DOMAIN R.user THEN R
    ELSE LET rest == SelectSeq(R.user[user_id], LAMBDA x : meta[x].client_id # client_id)
         IN  [R EXCEPT !.user = IF rest = <<>> THEN DictDel(R.user, user_id)
                                 ELSE DictPut(R.user, user_id, rest)]

RECURSIVE handle_client_user_switch(_, _, _, _, _)
handle_client_user_switch(R, meta, todo, client_id, new_user_id) ==
    IF todo = <<>> THEN R
    ELSE LET old == meta[Head(todo)].user_id
         IN  handle_client_user_switch(
                 IF old # None /\ old # new_user_id
                 THEN remove_user_from_client(R, meta, old, client_id) ELSE R,
                 meta, Tail(todo), client_id, new_user_id)

\* Identifiers are interchangeable: a registration names one already in use or the
\* first unused one of the list.
Fresh(order, used) ==
    {order[i] : i \in {j \in 1..Len(order) : \A k \in 1..(j - 1) : order[k] \in used}}

UsedUsers == {wsMeta[x].user_id : x \in Sockets} \ {None}
UsedClients == {wsMeta[x].client_id : x \in Sockets} \ {None}
UsedNodes == {wsMeta[x].node_id : x \in Sockets} \ {None}

FullIds == [domain_id |-> "d1", cluster_id |-> "k1", channel_id |-> "ch1"]
NoChannelIds == [domain_id |-> "d1", cluster_id |-> "k1", channel_id |-> None]
DomainOnly == [domain_id |-> "d1", cluster_id |-> None, channel_id |-> None]
NoIds == [domain_id |-> None, cluster_id |-> None, channel_id |-> None]
Advertised == {FullIds, NoChannelIds}
OtherChannel == [domain_id |-> "d1", cluster_id |-> "k1", channel_id |-> "ch2"]

\* The state a handler leaves behind: transport, attributes, registry X.R,
\* NodeManager X.N and the back references X.nmc.
Commit(st, meta, X) ==
    /\ wsState' = st
    /\ wsMeta' = meta
    /\ node_connections' = X.R.node
    /\ user_connections' = X.R.user
    /\ client_connections' = X.R.client
    /\ connection' = X.N.connection
    /\ nodemanager_connection' = X.nmc
    /\ domain_pool' = X.N.pool.domain
    /\ cluster_pool' = X.N.pool.cluster
    /\ channel_pool' = X.N.pool.channel
    /\ domain_node_index' = X.N.index.domain
    /\ cluster_node_index' = X.N.index.cluster
    /\ channel_node_index' = X.N.index.channel

Current == [R |-> Registry, N |-> NodeMgr, nmc |-> nodemanager_connection]

\* A send that always raises
send_message_to_websocket_raises(reply, st, websocket, message) == reply

\* send_message_to_websocket: the frame is written unless the send raises, which
\* is logged. st: the transports, the socket of the handler being connected.
send_message_to_websocket(reply, st, websocket, message) ==
    IF st[websocket] = "open" THEN [reply EXCEPT ![websocket] = message] ELSE reply

registration_success(user_id) == [type |-> "registration_success", user_id |-> user_id]
registration_rejected(user_id) == [type |-> "registration_rejected", user_id |-> user_id]

\* A registration frame is written to socket 'to' (0: none), the new socket is
\* closed by the handler and its finally block runs.
RegistrationReturn(w, X, meta, tasks, to, message) ==
    LET st1 == [wsState EXCEPT ![w] = "closed_1000"]
    IN  /\ Commit(st1, meta,
                  remove_connection_from_all_pools(X, w, meta, closed_by_logout, st1))
        /\ broker_tasks' = tasks
        /\ registration_reply' =
               IF to = 0 THEN registration_reply
               ELSE send_message_to_websocket(registration_reply,
                                              [wsState EXCEPT ![w] = "open"], to, message)
        /\ UNCHANGED <<flagVars, nm_task, rpcVars, security_code_record, dbVars, loVars,
                       new_device_login, probeVars, feedbackVars>>

\* register_c_client: the ClientConnection of socket w, added to the pools whose
\* ids the client advertised
register_c_client(N, w, meta, is_main) ==
    LET conn == [websocket |-> w, node_id |-> meta[w].node_id,
                 domain_id |-> meta[w].domain_id, cluster_id |-> meta[w].cluster_id,
                 channel_id |-> meta[w].channel_id, is_domain_main_node |-> FALSE,
                 is_cluster_main_node |-> FALSE, is_channel_main_node |-> is_main]
        N0 == [N EXCEPT !.connection[w] = conn]
        N1 == IF conn.domain_id # None THEN add_to_pool(N0, "domain", conn.domain_id, w)
              ELSE N0
        N2 == IF conn.cluster_id # None THEN add_to_pool(N1, "cluster", conn.cluster_id, w)
              ELSE N1
        N3 == IF conn.channel_id # None THEN add_to_pool(N2, "channel", conn.channel_id, w)
              ELSE N2
    IN  IF ~is_main /\ conn.channel_id # None
        THEN add_to_pool(N3, "channel", conn.channel_id, w)
        ELSE N3

\* The request types of the probing path: count_peers_amount for a tier of a level,
\* assign_to_<level>, and the new_<level>_node of a session that found no tier
CountCommand(level) ==
    IF level = "domain" THEN "count_peers_amount(domain)"
    ELSE IF level = "cluster" THEN "count_peers_amount(cluster)"
    ELSE "count_peers_amount(channel)"

AssignCommand(level) ==
    IF level = "domain" THEN "assign_to_domain"
    ELSE IF level = "cluster" THEN "assign_to_cluster"
    ELSE "assign_to_channel"

NewCommand(level) ==
    IF level = "domain" THEN "new_domain_node"
    ELSE IF level = "cluster" THEN "new_cluster_node"
    ELSE "new_channel_node"

ProbeCommands ==
    {CountCommand(Levels[i]) : i \in 1..3} \cup {AssignCommand(Levels[i]) : i \in 1..3}
        \cup {"add_new_node_to_peers"}

\* The first position after 'from' of a list whose element passes the test (0: none)
NextIndex(s, from, Test(_)) ==
    LET S == {j \in (from + 1)..Len(s) : Test(s[j])}
    IN  IF S = {} THEN 0 ELSE CHOOSE j \in S : \A k \in S : j <= k

\* assign_to_domain / assign_to_cluster / assign_to_channel up to its first request:
\* count_peers through the first connection of the tier's pool, or the assign_to
\* command at once when the pool is empty
Enter(N, w, a, level, id, j, own) ==
    LET conns == DictGet(N.pool[level], id)
        a1 == [a EXCEPT !.level = level, !.tier[level] = id, !.i[level] = j,
                        !.own[level] = own, !.chain = FALSE]
    IN  IF conns = <<>>
        THEN [a1 EXCEPT !.pc = "assign_to", !.probe = "skipped",
                        !.request = <<w, AssignCommand(level)>>]
        ELSE [a1 EXCEPT !.pc = "count_peers", !.probe = None,
                        !.request = <<N.connection[conns[1]].websocket,
                                      CountCommand(level)>>]

\* new_cluster_node / new_channel_node up to its request
Create(w, a, level) ==
    [a EXCEPT !.pc = "new_node", !.level = level, !.chain = FALSE,
              !.request = <<w, NewCommand(level)>>]

\* assign_new_client has returned
Returned == [NoAssign EXCEPT !.pc = "return"]

\* The loop of assign_new_client over domain_pool.items(), after position 'from':
\* the next domain that has connections, else new_domain_node
TryDomains(N, w, a, from) ==
    LET ids == TierIds("domain")
        j == NextIndex(ids, from, LAMBDA id : DictGet(N.pool.domain, id) # <<>>)
    IN  IF j = 0 THEN [NoAssign EXCEPT !.pc = "new_domain_node"]
        ELSE Enter(N, w, [NoAssign EXCEPT !.i.domain = j], "domain", ids[j], j, FALSE)

\* The loop of assign_to_domain over the connections of the domain: the next one
\* that has a cluster_id, else new_cluster_node
TryClusters(N, w, a, from) ==
    LET members == DictGet(N.pool.domain, a.tier.domain)
        j == NextIndex(members, from, LAMBDA c : N.connection[c].cluster_id # None)
    IN  IF j = 0 THEN Create(w, a, "cluster")
        ELSE Enter(N, w, a, "cluster", N.connection[members[j]].cluster_id, j, FALSE)

\* The loop of assign_to_cluster over the connections of the cluster: the next one
\* that has a channel_id, else new_channel_node if the session has a domain_id
TryChannels(N, w, a, from) ==
    LET members == DictGet(N.pool.cluster, a.tier.cluster)
        j == NextIndex(members, from, LAMBDA c : N.connection[c].channel_id # None)
    IN  IF j = 0
        THEN IF N.connection[w].domain_id # None THEN Create(w, a, "channel")
             ELSE Returned
        ELSE Enter(N, w, a, "channel", N.connection[members[j]].channel_id, j, FALSE)

\* assign_to_cluster returned False: its caller is the loop of assign_to_domain, or
\* assign_to_domain returns it (the cluster was the session's own)
RefusedCluster(N, w, a) ==
    IF a.own.cluster THEN TryDomains(N, w, a, a.i.domain)
    ELSE TryClusters(N, w, a, a.i.cluster)

\* assign_to_<level> returned False
Refused(N, w, a) ==
    IF a.level = "domain" THEN TryDomains(N, w, a, a.i.domain)
    ELSE IF a.level = "cluster" THEN RefusedCluster(N, w, a)
    ELSE IF a.own.channel THEN RefusedCluster(N, w, a)
    ELSE TryChannels(N, w, a, a.i.channel)

\* assign_new_client of a session that advertised no domain, up to its first request
\* (NoAssign: no domain has a connection, new_domain_node is called)
assign_new_client(N, w) ==
    LET a == TryDomains(N, w, NoAssign, 0)
    IN  IF a.pc = "new_domain_node" THEN NoAssign ELSE a

\* _process_c_client_registration from 'Add new connection to client pool' on: the
\* socket joins the client's and the user's bucket, the node management task is
\* created and registration_success is written. X2, meta: the registry, NodeManager
\* and attributes the handler has reached; st: the transports it leaves; old: the
\* old connections of the client that a new device login found.
Accept(w, X2, meta, st, user_id, client_id, ids, by_code, is_main, suspends, old) ==
    \E R3 \in {[X2.R EXCEPT !.client =
                  DictPut(@, client_id, Append(DictGet(@, client_id), w))]} :
    \E R4 \in {handle_client_user_switch(R3, meta,
                  SelectSeq(R3.client[client_id], LAMBDA x : x # w),
                  client_id, user_id)} :
    \E kept \in {SelectSeq(DictGet(R4.user, user_id),
                    LAMBDA x : ~(closed_by_logout[x] /\ ~logout_feedback_tracking[x]))} :
    \E R5 \in {[R4 EXCEPT !.user = DictPut(@, user_id, Append(kept, w))]} :
    \E N5 \in {register_c_client(X2.N, w, meta, is_main)} :
    \E needs_assignment \in {ids.channel_id = None \/ ids.cluster_id = None
                              \/ ids.domain_id = None} :
    \E first \in {<<w, IF ids.domain_id = None THEN "new_domain_node"
                        ELSE IF ids.cluster_id = None THEN "new_cluster_node"
                        ELSE "new_channel_node">>} :
    \E a \in {IF ids.domain_id = None /\ ~N5.err THEN assign_new_client(N5, w)
              ELSE NoAssign} :
        \* the handler yields before it deletes the code row only where
        \* it waits for the network: closing an old socket of the client,
        \* or notifying the user's other sessions
        /\ suspends =>
              /\ by_code
              /\ \/ \E x \in SeqToSet(old) : wsState[x] = "open"
                 \/ account[user_id] # "out" /\ kept # <<>>
        /\ Commit(st, meta,
                  [R |-> R5, N |-> [N5 EXCEPT !.err = FALSE],
                   nmc |-> IF needs_assignment \/ N5.err THEN X2.nmc
                           ELSE [X2.nmc EXCEPT ![w] = w]])
        /\ nm_task' = [nm_task EXCEPT ![w] =
                          IF N5.err THEN "done"
                          ELSE IF a # NoAssign THEN "probe"
                          ELSE IF needs_assignment THEN "rpc" ELSE "done"]
        /\ pending_requests' = IF a # NoAssign THEN pending_requests \cup {a.request}
                               ELSE IF needs_assignment /\ ~N5.err
                               THEN pending_requests \cup {first}
                               ELSE pending_requests
        /\ future' = IF a = NoAssign /\ needs_assignment /\ ~N5.err
                     THEN [future EXCEPT ![first] = "pending"] ELSE future
        /\ assign' = [assign EXCEPT ![w] = a]
        /\ UNCHANGED <<peer_advisory, feedbackVars>>
        /\ UNCHANGED <<set_result_calls, late_calls, replies, late_parent>>
        /\ security_codes' = IF by_code /\ ~suspends
                             THEN security_codes \ {user_id}
                             ELSE security_codes
        /\ security_code_record' =
               IF suspends THEN [security_code_record EXCEPT ![w] = user_id]
               ELSE security_code_record
        /\ UNCHANGED <<cookie, account, loVars>>
        /\ broker_tasks' = broker_tasks \cup {<<w, user_id>>}
        /\ registration_reply' =
               send_message_to_websocket(registration_reply, st, w,
                                         registration_success(user_id))
        /\ UNCHANGED flagVars

\* _process_c_client_registration up to the start of the message loop.
\* by_code: the username sent is a security code of user_id (new device login).
\* The node management task runs up to its first suspension in the same step:
\* register_c_client, then either the back reference (all ids advertised) or the
\* request of assign_new_client for the first tier the client lacks: the new_*_node
\* of that tier, or count_peers for the first domain that has connections.
\* The handler's locals are bound once each (\E over a one-element set).
Register(w, user_id, client_id, node_id, ids, by_code, is_main, suspends) ==
    /\ UNCHANGED attVars
    /\ wsState[w] = "new"
    /\ \A v \in Sockets : v < w => wsState[v] # "new"
    /\ is_main => ids = FullIds
    /\ by_code => user_id \in security_codes
    /\ \E meta \in {[wsMeta EXCEPT ![w] =
                       [user_id |-> user_id, loop_user_id |-> user_id, client_id |-> client_id,
                        node_id |-> node_id,
                        domain_id |-> ids.domain_id, cluster_id |-> ids.cluster_id,
                        channel_id |-> ids.channel_id]]} :
       \E X0 \in {[Current EXCEPT
                     !.R.node = DictPut(@, node_id, Append(DictGet(@, node_id), w))]} :
       \* new device login: old connections of the client are removed and closed
       \E old \in {SelectSeq(DictGet(X0.R.client, client_id), LAMBDA x : x # w)} :
       \E stOld \in {[x \in Sockets |->
                        IF by_code /\ x \in SeqToSet(old) /\ wsState[x] = "open"
                        THEN "closed_1000" ELSE wsState[x]]} :
       \E X1 \in {IF by_code
                  THEN RemoveEach(X0, old, meta, closed_by_logout, wsState)
                  ELSE X0} :
       \* check_duplicate_registration
       \E cands \in {DuplicateCandidates(X1.R, meta, node_id, client_id, user_id, w)} :
       \E duplicate \in {~by_code /\ \E x \in cands : Valid(x)} :
       \E X2 \in {IF by_code \/ duplicate THEN X1
                  ELSE [X1 EXCEPT !.R = RemoveInvalidSet(X1.R, cands)]} :
       \E existing \in {IF client_id \in DOMAIN X2.R.client
                        THEN X2.R.client[client_id][1] ELSE 0} :
           IF duplicate
           THEN RegistrationReturn(w, X2, meta, broker_tasks,
                    find_existing_connection(X2.R, meta, node_id, client_id, user_id),
                    registration_success(user_id))
           ELSE IF ~by_code /\ existing # 0
           THEN IF meta[existing].node_id = node_id /\ meta[existing].user_id = user_id
                THEN RegistrationReturn(w, X2, meta, broker_tasks, existing,
                                        registration_success(user_id))
                ELSE IF meta[existing].node_id = node_id
                THEN \* same node, other user: the existing socket is rebound
                     \E meta2 \in {[meta EXCEPT ![existing].user_id = user_id,
                                                ![existing].domain_id = ids.domain_id,
                                                ![existing].cluster_id = ids.cluster_id,
                                                ![existing].channel_id = ids.channel_id]} :
                     \E U1 \in {PoolRemove(X2.R.user, existing)} :
                     \E U2 \in {IF existing \in SeqToSet(DictGet(U1, user_id)) THEN U1
                                ELSE DictPut(U1, user_id,
                                             Append(DictGet(U1, user_id), existing))} :
                         RegistrationReturn(w, [X2 EXCEPT !.R.user = U2], meta2,
                                            broker_tasks \cup {<<existing, user_id>>},
                                            existing, registration_success(user_id))
                ELSE \* other node: registration_rejected
                     RegistrationReturn(w, X2, meta, broker_tasks, w,
                                        registration_rejected(user_id))
           ELSE /\ Accept(w, X2, meta, [stOld EXCEPT ![w] = "open"], user_id, client_id,
                          ids, by_code, is_main, suspends, old)
                /\ UNCHANGED new_device_login

\* A new device login up to 'await old_ws.close(...)': the socket has its attributes
\* and is in the node's bucket, the old connections of the client are out of all
\* pools, and the handler waits for the close handshake of an old connection that
\* is still connected.
NewDeviceLogin(w, user_id, client_id, node_id, ids) ==
    /\ UNCHANGED attVars
    /\ wsState[w] = "new"
    /\ \A v \in Sockets : v < w => wsState[v] # "new"
    /\ user_id \in security_codes
    /\ \E meta \in {[wsMeta EXCEPT ![w] =
                       [user_id |-> user_id, loop_user_id |-> user_id, client_id |-> client_id,
                        node_id |-> node_id,
                        domain_id |-> ids.domain_id, cluster_id |-> ids.cluster_id,
                        channel_id |-> ids.channel_id]]} :
       \E X0 \in {[Current EXCEPT
                     !.R.node = DictPut(@, node_id, Append(DictGet(@, node_id), w))]} :
       \E old \in {SelectSeq(DictGet(X0.R.client, client_id), LAMBDA x : x # w)} :
           /\ \E x \in SeqToSet(old) : wsState[x] = "open"
           /\ Commit([x \in Sockets |->
                         IF x = w THEN "open"
                         ELSE IF x \in SeqToSet(old) /\ wsState[x] = "open"
                         THEN "closed_1000" ELSE wsState[x]],
                     meta, RemoveEach(X0, old, meta, closed_by_logout, wsState))
    /\ new_device_login' =
           [new_device_login EXCEPT ![w] = [pc |-> "closing", user_id |-> user_id,
                                            client_id |-> client_id, ids |-> ids]]
    /\ UNCHANGED <<registration_reply, probeVars, feedbackVars, flagVars, taskVars, dbVars,
                   loVars>>

\* The close handshake is over and the handler goes on: the duplicate check and
\* the check of the client's node are skipped for a new device login.
NewDeviceResume(w) ==
    /\ UNCHANGED attVars
    /\ new_device_login[w].pc = "closing"
    /\ Accept(w, Current, wsMeta, wsState, new_device_login[w].user_id,
              new_device_login[w].client_id, new_device_login[w].ids, TRUE, FALSE, FALSE,
              <<>>)
    /\ new_device_login' = [new_device_login EXCEPT ![w] = NoLogin]

\* handle_security_code_request: one row per user
handle_security_code_request(w) ==
    /\ UNCHANGED attVars
    /\ wsState[w] = "open"
    /\ new_device_login[w] = NoLogin
    /\ wsMeta[w].user_id \notin security_codes
    /\ \A x \in Sockets : security_code_record[x] # wsMeta[w].user_id
    /\ security_codes' = security_codes \cup {wsMeta[w].user_id}
    /\ UNCHANGED <<wsState, wsMeta, handlerVars, flagVars, regVars, nmVars, taskVars, cookie, account, loVars>>

\* The registration handler resumes: it queries the code row again, deletes it if it
\* is still there and sends registration_success.
DeleteSecurityCode(w) ==
    /\ security_code_record[w] # None
    /\ security_codes' = security_codes \ {security_code_record[w]}
    /\ security_code_record' = [security_code_record EXCEPT ![w] = None]
    /\ UNCHANGED <<wsState, wsMeta, handlerVars, flagVars, regVars, nmVars, nm_task, broker_tasks,
                   rpcVars, cookie, account, loVars, attVars>>

TransportClose(w) ==
    /\ UNCHANGED attVars
    /\ wsState[w] = "open"
    /\ wsState' = [wsState EXCEPT ![w] = "closed"]
    /\ UNCHANGED <<wsMeta, handlerVars, flagVars, regVars, nmVars, taskVars, dbVars, loVars>>

\* The handler of a closed socket leaves its message loop: on ConnectionClosed
\* ("error") remove_invalid_connection runs before the finally block, otherwise
\* ("ok") only the finally block's remove_connection_from_all_pools.
HandlerExit(w, kind) ==
    /\ UNCHANGED attVars
    /\ wsState[w] \in {"closed", "closed_1000"}
    /\ late_parent[w] = None
    /\ security_code_record[w] = None
    /\ forward_task.source # w
    /\ new_device_login[w] = NoLogin
    /\ InRegistry(Registry, w)
    /\ LET X == IF kind = "error"
                THEN [Current EXCEPT !.R = remove_invalid_connection(Registry, w)]
                ELSE Current
       IN  Commit(wsState, wsMeta,
                  remove_connection_from_all_pools(X, w, wsMeta, closed_by_logout, wsState))
    /\ UNCHANGED <<handlerVars, flagVars, taskVars, dbVars, loVars>>

\* ------------------------------------------------------------ logout
\* _delete_user_data
_delete_user_data(u) ==
    /\ cookie' = cookie \ {u}
    /\ account' = [account EXCEPT ![u] = IF @ = "none" THEN "none" ELSE "out"]

\* _handle_logout_request, step 1
LogoutRequest(u, client_id) ==
    /\ UNCHANGED attVars
    /\ lo.pc = "idle"
    /\ _delete_user_data(u)
    /\ lo' = [NoLogout EXCEPT !.pc = "notify", !.user_id = u, !.client_id = client_id]
    /\ UNCHANGED <<wsState, wsMeta, handlerVars, flagVars, regVars, nmVars, taskVars, security_codes,
                   user_logout_sent>>

\* _notify_c_client_logout and the barrier up to its first await: the targets are
\* the valid sessions of the user (on the named client) and are marked.
LogoutNotify ==
    /\ UNCHANGED attVars
    /\ lo.pc = "notify"
    /\ LET mine(x) == lo.client_id = None \/ wsMeta[x].client_id = lo.client_id
           bucket == DictGet(user_connections, lo.user_id)
           active_connections == SelectSeq(bucket, LAMBDA x : mine(x) /\ Valid(x))
       IN  IF active_connections = <<>>
           THEN /\ lo' = [lo EXCEPT !.pc = "cleanup", !.present = SeqToSet(bucket)]
                /\ UNCHANGED flagVars
           ELSE /\ lo' = [lo EXCEPT !.pc = "sending", !.present = SeqToSet(bucket),
                                    !.user_websockets = active_connections]
                /\ logout_in_progress' = [x \in Sockets |->
                       logout_in_progress[x] \/ x \in SeqToSet(active_connections)]
                /\ UNCHANGED <<closed_by_logout, logout_feedback_tracking>>
    /\ UNCHANGED <<wsState, wsMeta, handlerVars, regVars, nmVars, taskVars, dbVars, user_logout_sent>>

\* send_logout_message_parallel has returned: a frame went to every target whose
\* transport is open; then the targets are marked closed_by_logout and tracked.
LogoutSend ==
    /\ UNCHANGED attVars
    /\ lo.pc = "sending"
    /\ LET T == SeqToSet(lo.user_websockets)
       IN  /\ user_logout_sent' = user_logout_sent \cup {x \in T : wsState[x] = "open"}
           /\ closed_by_logout' = [x \in Sockets |-> closed_by_logout[x] \/ x \in T]
           /\ logout_in_progress' = [x \in Sockets |-> logout_in_progress[x] /\ x \notin T]
           /\ logout_feedback_tracking' =
                  [x \in Sockets |-> logout_feedback_tracking[x] \/ x \in T]
    /\ lo' = [lo EXCEPT !.pc = "wait", !.feedback_received = {}, !.polls = 0]
    /\ UNCHANGED <<wsState, wsMeta, handlerVars, regVars, nmVars, taskVars, dbVars>>

\* A wait loop without the timeout: it is left on all feedback only
LogoutPoll_waits_for_all_acks ==
    /\ UNCHANGED attVars
    /\ lo.pc = "wait"
    /\ lo' = IF SeqToSet(lo.user_websockets) \subseteq lo.feedback_received
             THEN [lo EXCEPT !.pc = "clear", !.next = 1]
             ELSE lo
    /\ UNCHANGED <<wsState, wsMeta, handlerVars, flagVars, regVars, nmVars, taskVars, dbVars,
                   user_logout_sent>>

\* One pass of the wait loop: leave on all feedback, else sleep 100 ms, and leave
\* when the timeout has run out (MaxPolls sleeps stand for the 10 s).
LogoutPoll ==
    /\ UNCHANGED attVars
    /\ lo.pc = "wait"
    /\ lo' = IF SeqToSet(lo.user_websockets) \subseteq lo.feedback_received
             THEN [lo EXCEPT !.pc = "clear", !.next = 1]
             ELSE IF lo.polls < MaxPolls
             THEN [lo EXCEPT !.polls = @ + 1]
             ELSE [lo EXCEPT !.pc = "clear", !.next = 1]
    /\ UNCHANGED <<wsState, wsMeta, handlerVars, flagVars, regVars, nmVars, taskVars, dbVars,
                   user_logout_sent>>

\* _sync_connection_status_to_nodemanager_pools(websocket, 'closed_by_logout')
\* on Y = [N, cbl]
_sync_connection_status_to_nodemanager_pools(Y, nmc, ws, st) ==
    IF nmc[ws] = 0 THEN Y
    ELSE LET cbl1 == [Y.cbl EXCEPT ![Y.N.connection[nmc[ws]].websocket] = TRUE]
         IN  [N |-> [cleanup_disconnected_connections(Y.N, cbl1, st) EXCEPT !.err = FALSE],
              cbl |-> cbl1]

\* One iteration of the barrier's last loop, for the next target
LogoutClear ==
    /\ UNCHANGED attVars
    /\ lo.pc = "clear"
    /\ LET ws == lo.user_websockets[lo.next]
           Y == _sync_connection_status_to_nodemanager_pools(
                    [N |-> NodeMgr, cbl |-> closed_by_logout],
                    nodemanager_connection, ws, wsState)
       IN  /\ logout_feedback_tracking' = [logout_feedback_tracking EXCEPT ![ws] = FALSE]
           /\ closed_by_logout' = Y.cbl
           /\ connection' = Y.N.connection
           /\ domain_pool' = Y.N.pool.domain
           /\ cluster_pool' = Y.N.pool.cluster
           /\ channel_pool' = Y.N.pool.channel
           /\ domain_node_index' = Y.N.index.domain
           /\ cluster_node_index' = Y.N.index.cluster
           /\ channel_node_index' = Y.N.index.channel
    /\ lo' = IF lo.next = Len(lo.user_websockets)
             THEN [lo EXCEPT !.pc = "cleanup"]
             ELSE [lo EXCEPT !.next = @ + 1]
    /\ UNCHANGED <<wsState, wsMeta, handlerVars, logout_in_progress, regVars, nodemanager_connection,
                   taskVars, dbVars, user_logout_sent>>

\* _handle_logout_request, steps 4 and 5
LogoutCleanup ==
    /\ UNCHANGED attVars
    /\ lo.pc = "cleanup"
    /\ LET R == cleanup_invalid_connections(Registry, logout_in_progress,
                    logout_feedback_tracking, closed_by_logout, wsState)
       IN  /\ node_connections' = R.node
           /\ user_connections' = R.user
           /\ client_connections' = R.client
    /\ lo' = [lo EXCEPT !.pc = "done"]
    /\ UNCHANGED <<wsState, wsMeta, handlerVars, flagVars, nmVars, taskVars, dbVars, user_logout_sent>>

LogoutReturn ==
    /\ UNCHANGED attVars
    /\ lo.pc = "done"
    /\ lo' = NoLogout
    /\ UNCHANGED <<wsState, wsMeta, handlerVars, flagVars, regVars, nmVars, taskVars, dbVars,
                   user_logout_sent>>

\* The sockets handle_logout_feedback marks in the tracking dict for a frame read
\* from socket w that carries feedback_client_id: the first connection of the user's
\* bucket with that client id, if it has the tracking dict; else, if some connection
\* in user_connections has the dict, the first key of the dict with that client id.
FeedbackMarked(w, feedback_client_id) ==
    LET bucket == DictGet(user_connections, wsMeta[w].loop_user_id)
        hits == SelectSeq(bucket, LAMBDA x : wsMeta[x].client_id = feedback_client_id)
        keys == SelectSeq(lo.user_websockets,
                          LAMBDA x : wsMeta[x].client_id = feedback_client_id)
    IN  IF hits # <<>> /\ logout_feedback_tracking[hits[1]] THEN {hits[1]}
        ELSE IF \E k \in DOMAIN user_connections :
                   \E x \in SeqToSet(user_connections[k]) : logout_feedback_tracking[x]
        THEN IF keys = <<>> THEN {} ELSE {keys[1]}
        ELSE {}

\* handle_logout_feedback for a logout_feedback frame read from socket w, to which
\* user_logout was written
handle_logout_feedback(w) ==
    /\ UNCHANGED attVars
    /\ wsState[w] = "open"
    /\ w \in user_logout_sent
    /\ \E marked \in {FeedbackMarked(w, wsMeta[w].client_id)} :
           /\ marked # {}
           /\ ~(marked \subseteq lo.feedback_received)
           /\ lo' = [lo EXCEPT !.feedback_received = @ \cup marked]
    /\ UNCHANGED <<wsState, wsMeta, handlerVars, flagVars, regVars, nmVars, taskVars, dbVars,
                   user_logout_sent>>

\* handle_logout_feedback for the logout_feedback frame of a C-Client that lost the
\* socket on which it was sent user_logout and answers on the socket it has now
\* (w). Without a tracking dict the frame is logged as coming from an unknown
\* connection.
logout_feedback_after_reconnect(w) ==
    /\ UNCHANGED attVars
    /\ wsState[w] = "open"
    /\ w \notin user_logout_sent
    /\ \E t \in user_logout_sent :
           wsState[t] # "open" /\ wsMeta[t].client_id = wsMeta[w].client_id
    /\ \E marked \in {FeedbackMarked(w, wsMeta[w].client_id)} :
           /\ marked = {} => wsMeta[w].client_id \notin feedback_unmatched
           /\ marked # {} => ~(marked \subseteq lo.feedback_received)
           /\ lo' = [lo EXCEPT !.feedback_received = @ \cup marked]
           /\ feedback_unmatched' = IF marked = {}
                                    THEN feedback_unmatched \cup {wsMeta[w].client_id}
                                    ELSE feedback_unmatched
    /\ UNCHANGED <<wsState, wsMeta, registration_reply, new_device_login, probeVars,
                   sessionVars, flagVars, regVars, nmVars, taskVars, dbVars,
                   user_logout_sent>>

\* ------------------------------------------------------------ RPC dispatcher
\* The tier a placement command creates, and the command that follows it
LevelOf(command_type) ==
    IF command_type = "new_domain_node" THEN "domain"
    ELSE IF command_type = "new_cluster_node" THEN "cluster"
    ELSE "channel"

NextCommand(command_type) ==
    IF command_type = "new_domain_node" THEN "new_cluster_node" ELSE "new_channel_node"

\* The id in the data of a successful reply: agents mint UUIDs, no two alike
MintedIds == [domain |-> <<"d2", "d3", "d4", "d5">>, cluster |-> <<"k2", "k3", "k4", "k5">>,
              channel |-> <<"ch2", "ch3", "ch4", "ch5">>]

NewId(level, w) == MintedIds[level][w]

\* The connection process_c_client_message hands to handle_c_client_response: the
\* first pool member with the sender's node_id (0: a throwaway minimal connection)
ResponseConnection(N, node_id) ==
    LET hits == SelectSeq(PoolWalk(N), LAMBDA c : N.connection[c].node_id = node_id)
    IN  IF hits = <<>> THEN 0 ELSE hits[1]

\* _process_late_response up to the request it sends: the id of the reply is set on
\* the connection it was handed; a channel head is appended to the pool's list
_process_late_response(N, c, command_type, id) ==
    IF c = 0 THEN N
    ELSE IF command_type = "new_domain_node" THEN [N EXCEPT !.connection[c].domain_id = id]
    ELSE IF command_type = "new_cluster_node" THEN [N EXCEPT !.connection[c].cluster_id = id]
    ELSE LET N1 == [N EXCEPT !.connection[c].channel_id = id]
         IN  IF N1.connection[c].is_channel_main_node
             THEN [N1 EXCEPT !.pool.channel = DictPut(@, id, Append(DictGet(@, id), c))]
             ELSE N1

\* A success branch that sets the id and joins the pool without the head flag
NewNode_without_head_flag(N, c, command_type, id) ==
    add_to_pool(
        IF command_type = "new_domain_node" THEN [N EXCEPT !.connection[c].domain_id = id]
        ELSE IF command_type = "new_cluster_node"
        THEN [N EXCEPT !.connection[c].cluster_id = id]
        ELSE [N EXCEPT !.connection[c].channel_id = id],
        LevelOf(command_type), id, c)

\* new_domain_node / new_cluster_node / new_channel_node after a successful reply:
\* the id and the head flag are set on the connection, which joins the pool
NewNode(N, c, command_type, id) ==
    add_to_pool(
        IF command_type = "new_domain_node"
        THEN [N EXCEPT !.connection[c].domain_id = id,
                       !.connection[c].is_domain_main_node = TRUE]
        ELSE IF command_type = "new_cluster_node"
        THEN [N EXCEPT !.connection[c].cluster_id = id,
                       !.connection[c].is_cluster_main_node = TRUE]
        ELSE [N EXCEPT !.connection[c].channel_id = id,
                       !.connection[c].is_channel_main_node = TRUE],
        LevelOf(command_type), id, c)

\* A dispatcher that resolves whatever future it finds in pending_requests
MayResolve_without_done_check(state) == TRUE

\* Whether handle_c_client_response resolves the future of a pending request
MayResolve(state) == state = "pending"

\* send_to_c_client gives up after 30 s: wait_for cancels the future, the entry of
\* pending_requests stays, and the new_*_node that called it returns False. In the
\* node management task handle_new_connection returns; in the message loop
\* _process_late_response returns and handle_c_client_response deletes the entry of
\* the late reply it was processing.
RpcTimeout(w, command_type) ==
    /\ UNCHANGED attVars
    /\ assign[w] = NoAssign
    /\ future[<<w, command_type>>] = "pending"
    /\ future' = [future EXCEPT ![<<w, command_type>>] = "cancelled"]
    /\ IF nm_task[w] = "rpc"
       THEN /\ nm_task' = [nm_task EXCEPT ![w] = "done"]
            /\ nodemanager_connection' = [nodemanager_connection EXCEPT ![w] = w]
            /\ UNCHANGED <<pending_requests, late_parent>>
       ELSE /\ pending_requests' = pending_requests \ {<<w, late_parent[w]>>}
            /\ late_parent' = [late_parent EXCEPT ![w] = None]
            /\ UNCHANGED <<nm_task, nodemanager_connection>>
    /\ UNCHANGED <<wsState, wsMeta, handlerVars, flagVars, regVars, connection, poolVars, broker_tasks,
                   set_result_calls, late_calls, replies, security_code_record, dbVars,
                   loVars>>

\* A response frame for the request of socket w read from socket w by its message
\* loop: handle_c_client_response. When it resolves the future, the task that waited
\* goes on in the same step up to its next request, or to the end of
\* handle_new_connection. When the future is done, a successful reply is processed
\* late: the id is set on the connection found for the sender's node_id and, for a
\* domain or a cluster, the next request is sent and awaited inside the message loop.
RpcResponse(w, command_type, success) ==
    /\ UNCHANGED attVars
    /\ assign[w] = NoAssign
    /\ wsState[w] = "open"
    /\ late_parent[w] = None
    /\ future[<<w, command_type>>] # "none"
    /\ replies[<<w, command_type>>] < MaxReplies
    /\ replies' = [replies EXCEPT ![<<w, command_type>>] = @ + 1]
    /\ \E r \in {<<w, command_type>>} :
       \E next \in {<<w, NextCommand(command_type)>>} :
       \E id \in {NewId(LevelOf(command_type), w)} :
       IF r \in pending_requests
       THEN IF MayResolve(future[r])
            THEN \E N1 \in {IF success THEN NewNode(NodeMgr, w, command_type, id)
                            ELSE NodeMgr} :
                 \E goes_on \in {success /\ ~N1.err /\ command_type # "new_channel_node"} :
                    /\ set_result_calls' = [set_result_calls EXCEPT ![r] = @ + 1]
                    /\ late_calls' = late_calls
                    /\ late_parent' = late_parent
                    /\ future' = IF goes_on
                                 THEN [future EXCEPT ![r] = "resolved", ![next] = "pending"]
                                 ELSE [future EXCEPT ![r] = "resolved"]
                    /\ pending_requests' = IF goes_on
                                           THEN (pending_requests \ {r}) \cup {next}
                                           ELSE pending_requests \ {r}
                    /\ nm_task' = IF goes_on THEN nm_task
                                  ELSE [nm_task EXCEPT ![w] = "done"]
                    /\ Commit(wsState, wsMeta,
                              [R |-> Registry, N |-> [N1 EXCEPT !.err = FALSE],
                               nmc |-> IF goes_on THEN nodemanager_connection
                                       ELSE [nodemanager_connection EXCEPT ![w] = w]])
            ELSE \E N1 \in {IF success
                            THEN _process_late_response(NodeMgr,
                                     ResponseConnection(NodeMgr, wsMeta[w].node_id),
                                     command_type, id)
                            ELSE NodeMgr} :
                 \E goes_on \in {success /\ command_type # "new_channel_node"} :
                    /\ late_calls' = IF success THEN [late_calls EXCEPT ![r] = @ + 1]
                                     ELSE late_calls
                    /\ late_parent' = IF goes_on
                                      THEN [late_parent EXCEPT ![w] = command_type]
                                      ELSE late_parent
                    /\ future' = IF goes_on THEN [future EXCEPT ![next] = "pending"]
                                 ELSE future
                    /\ pending_requests' = IF goes_on THEN pending_requests \cup {next}
                                           ELSE pending_requests \ {r}
                    /\ Commit(wsState, wsMeta,
                              [R |-> Registry, N |-> N1, nmc |-> nodemanager_connection])
                    /\ UNCHANGED <<set_result_calls, nm_task>>
       ELSE UNCHANGED <<wsState, wsMeta, handlerVars, regVars, nmVars, pending_requests, future,
                        set_result_calls, late_calls, late_parent, nm_task>>
    /\ UNCHANGED <<handlerVars, flagVars, broker_tasks, security_code_record, dbVars, loVars>>

\* A response frame that carries the request id of the request sent to socket w is
\* read from another socket, x: handle_c_client_response looks the id up in
\* pending_requests and asks nothing of the sender. A pending future is resolved
\* with the frame, and the task that waited goes on as after a reply of its own
\* C-Client, with the id the frame carries; then the entry is deleted. Of the frames
\* for a request that has timed out, those with success false are followed.
ForeignResponse(x, w, command_type, success) ==
    /\ UNCHANGED attVars
    /\ x # w
    /\ wsState[x] = "open"
    /\ late_parent[x] = None
    /\ assign[x] = NoAssign /\ assign[w] = NoAssign
    /\ <<w, command_type>> \in pending_requests
    /\ MayResolve(future[<<w, command_type>>]) \/ ~success
    /\ \E r \in {<<w, command_type>>} :
       \E next \in {<<w, NextCommand(command_type)>>} :
       \E id \in {NewId(LevelOf(command_type), x)} :
       IF MayResolve(future[r])
       THEN \E N1 \in {IF success THEN NewNode(NodeMgr, w, command_type, id)
                       ELSE NodeMgr} :
            \E goes_on \in {success /\ ~N1.err /\ command_type # "new_channel_node"} :
               /\ set_result_calls' = [set_result_calls EXCEPT ![r] = @ + 1]
               /\ future' = IF goes_on
                            THEN [future EXCEPT ![r] = "resolved", ![next] = "pending"]
                            ELSE [future EXCEPT ![r] = "resolved"]
               /\ pending_requests' = IF goes_on
                                      THEN (pending_requests \ {r}) \cup {next}
                                      ELSE pending_requests \ {r}
               /\ nm_task' = IF goes_on THEN nm_task
                             ELSE [nm_task EXCEPT ![w] = "done"]
               /\ Commit(wsState, wsMeta,
                         [R |-> Registry, N |-> [N1 EXCEPT !.err = FALSE],
                          nmc |-> IF goes_on THEN nodemanager_connection
                                  ELSE [nodemanager_connection EXCEPT ![w] = w]])
       ELSE /\ pending_requests' = pending_requests \ {r}
            /\ UNCHANGED <<wsState, wsMeta, regVars, nmVars, future, set_result_calls,
                           nm_task>>
    /\ UNCHANGED <<handlerVars, flagVars, broker_tasks, late_calls, replies, late_parent,
                   security_code_record, dbVars, loVars>>

\* assignConfirmed of process_c_client_message, for one domain pool: the first
\* connection of the list with the node id of the message takes the ids of the
\* message; a cluster or channel head is appended to the list of its new id if it
\* is not in it.
AssignIn(N, conns, node_id, ids) ==
    LET found == SelectSeq(conns, LAMBDA c : N.connection[c].node_id = node_id)
    IN  IF found = <<>> THEN N
        ELSE LET c == found[1]
                 conn == [N.connection[c] EXCEPT
                             !.domain_id = IF ids.domain_id # None THEN ids.domain_id ELSE @,
                             !.cluster_id = IF ids.cluster_id # None THEN ids.cluster_id ELSE @,
                             !.channel_id = IF ids.channel_id # None THEN ids.channel_id ELSE @]
                 N1 == [N EXCEPT !.connection[c] = conn]
                 N2 == IF conn.cluster_id # None /\ conn.is_cluster_main_node
                          /\ c \notin SeqToSet(DictGet(N1.pool.cluster, conn.cluster_id))
                       THEN [N1 EXCEPT !.pool.cluster =
                                DictPut(@, conn.cluster_id,
                                        Append(DictGet(@, conn.cluster_id), c))]
                       ELSE N1
             IN  IF conn.channel_id # None /\ conn.is_channel_main_node
                    /\ c \notin SeqToSet(DictGet(N2.pool.channel, conn.channel_id))
                 THEN [N2 EXCEPT !.pool.channel =
                          DictPut(@, conn.channel_id, Append(DictGet(@, conn.channel_id), c))]
                 ELSE N2

\* for domain_id, connections in domain_pool.items()
RECURSIVE AssignWalk(_, _, _, _)
AssignWalk(N, domains, node_id, ids) ==
    IF domains = <<>> THEN N
    ELSE AssignWalk(AssignIn(N, DictGet(N.pool.domain, Head(domains)), node_id, ids),
                    Tail(domains), node_id, ids)

\* The C-Client of socket w reports the placement it holds for its node.
assignConfirmed(w, ids) ==
    /\ wsState[w] = "open"
    /\ wsMeta[w].node_id # None
    /\ late_parent[w] = None
    /\ Commit(wsState,
              [wsMeta EXCEPT
                  ![w].domain_id = IF ids.domain_id # None THEN ids.domain_id ELSE @,
                  ![w].cluster_id = IF ids.cluster_id # None THEN ids.cluster_id ELSE @,
                  ![w].channel_id = IF ids.channel_id # None THEN ids.channel_id ELSE @],
              [R |-> Registry,
               N |-> AssignWalk(NodeMgr, TierIds("domain"), wsMeta[w].node_id, ids),
               nmc |-> nodemanager_connection])
    /\ UNCHANGED <<handlerVars, flagVars, taskVars, dbVars, loVars, attVars>>

\* --------------------------------------------------- placement by assignment
\* The node management task of socket w goes on from a request that was answered or
\* ran out, up to its next request or to the end of handle_new_connection. N1: the
\* NodeManager it leaves; a1: the position it reaches; pend, fut: pending_requests
\* and the futures once the request it waited for is dealt with. At the end of
\* assign_to_channel add_new_node_to_peers writes the advisory to every connection
\* of the channel's pool, the session's own included.
Resume(w, N1, a1, pend, fut) ==
    /\ assign' = [assign EXCEPT ![w] =
                     IF a1.pc \in {"return", "new_domain_node"} THEN NoAssign ELSE a1]
    /\ pending_requests' =
           IF a1.pc = "return" THEN pend
           ELSE IF a1.pc = "new_domain_node" THEN pend \cup {<<w, "new_domain_node">>}
           ELSE IF a1.pc = "notify"
           THEN pend \cup {<<x, "add_new_node_to_peers">> : x \in a1.targets}
           ELSE pend \cup {a1.request}
    /\ future' = IF a1.pc = "new_domain_node"
                 THEN [fut EXCEPT ![<<w, "new_domain_node">>] = "pending"]
                 ELSE IF a1.pc = "new_node" THEN [fut EXCEPT ![a1.request] = "pending"]
                 ELSE fut
    /\ nm_task' = IF a1.pc = "return" THEN [nm_task EXCEPT ![w] = "done"]
                  ELSE IF a1.pc = "new_domain_node" THEN [nm_task EXCEPT ![w] = "rpc"]
                  ELSE nm_task
    /\ peer_advisory' =
           IF a1.pc = "notify"
           THEN peer_advisory \cup
                    {[to |-> x, type |-> "add_new_node_to_peers",
                      node_id |-> N1.connection[w].node_id] :
                        x \in {t \in a1.targets : wsState[t] = "open"}}
           ELSE peer_advisory
    /\ Commit(wsState, wsMeta,
              [R |-> Registry, N |-> [N1 EXCEPT !.err = FALSE],
               nmc |-> IF a1.pc = "return" THEN [nodemanager_connection EXCEPT ![w] = w]
                       ELSE nodemanager_connection])
    /\ UNCHANGED <<registration_reply, new_device_login, feedbackVars, flagVars,
                   broker_tasks, set_result_calls, late_calls, replies, late_parent,
                   security_code_record, dbVars, loVars, attVars>>

\* assign_to_<level> after count_peers returned: the tier is full, or the assign_to
\* command is sent to the session. A count_peers that failed or timed out returns 0.
Counted(w, a, node_count, probe) ==
    IF node_count >= MaxChildren THEN Refused(NodeMgr, w, a)
    ELSE [a EXCEPT !.pc = "assign_to", !.probe = probe,
                   !.request = <<w, AssignCommand(a.level)>>]

\* The C-Client that was asked answers count_peers_amount: with its count, or with
\* success false.
count_peers_reply(w, success, count) ==
    /\ assign[w].pc = "count_peers"
    /\ wsState[assign[w].request[1]] = "open"
    /\ late_parent[assign[w].request[1]] = None
    /\ Resume(w, NodeMgr,
              Counted(w, assign[w], IF success THEN count ELSE 0,
                      IF success THEN "counted" ELSE "failed"),
              pending_requests \ {assign[w].request}, future)

\* send_to_c_client of count_peers gives up after 30 s, or its send raised: the
\* entry of pending_requests stays
count_peers_timeout(w) ==
    /\ assign[w].pc = "count_peers"
    /\ Resume(w, NodeMgr, Counted(w, assign[w], 0, "timeout"), pending_requests, future)

\* assign_to_<level> after a successful reply of the session: it joins the pool of
\* the tier; then the tiers below are tried, or the channel's peers are notified
Assigned(N, w, a) ==
    LET N1 == add_to_pool(N, a.level, a.tier[a.level], w)
    IN  IF N1.err THEN <<N1, Refused(N1, w, a)>>
        ELSE IF a.level = "domain" THEN <<N1, TryClusters(N1, w, a, 0)>>
        ELSE IF a.level = "cluster" THEN <<N1, TryChannels(N1, w, a, 0)>>
        ELSE <<N1, [a EXCEPT !.pc = "notify",
                             !.targets = {N1.connection[c].websocket :
                                 c \in SeqToSet(N1.pool.channel[a.tier.channel])}]>>

\* The session answers assign_to_<level>
assign_to_reply(w, success) ==
    /\ assign[w].pc = "assign_to"
    /\ wsState[w] = "open"
    /\ late_parent[w] = None
    /\ \E p \in {IF success THEN Assigned(NodeMgr, w, assign[w])
                 ELSE <<NodeMgr, Refused(NodeMgr, w, assign[w])>>} :
          Resume(w, p[1], p[2], pending_requests \ {assign[w].request}, future)

assign_to_timeout(w) ==
    /\ assign[w].pc = "assign_to"
    /\ Resume(w, NodeMgr, Refused(NodeMgr, w, assign[w]), pending_requests, future)

\* After new_cluster_node returned to assign_to_domain, and after new_channel_node
\* returned to assign_to_cluster: the session is assigned to the tier it created, if
\* it has one
AfterNewCluster(N, w, a) ==
    IF N.connection[w].cluster_id # None
    THEN Enter(N, w, a, "cluster", N.connection[w].cluster_id, a.i.cluster, TRUE)
    ELSE Returned

AfterNewChannel(N, w, a) ==
    IF N.connection[w].channel_id # None
    THEN Enter(N, w, a, "channel", N.connection[w].channel_id, a.i.channel, TRUE)
    ELSE Returned

\* new_cluster_node / new_channel_node of the probing path after its reply
Created(N, w, a, success) ==
    LET N1 == IF success THEN NewNode(N, w, NewCommand(a.level), NewId(a.level, w))
              ELSE N
    IN  IF a.level = "cluster"
        THEN IF success /\ ~N1.err
             THEN <<N1, [Create(w, a, "channel") EXCEPT !.chain = TRUE]>>
             ELSE <<N1, AfterNewCluster(N1, w, a)>>
        ELSE IF a.chain THEN <<N1, AfterNewCluster(N1, w, a)>>
        ELSE <<N1, AfterNewChannel(N1, w, a)>>

new_node_reply(w, success) ==
    /\ assign[w].pc = "new_node"
    /\ wsState[w] = "open"
    /\ late_parent[w] = None
    /\ \E p \in {Created(NodeMgr, w, assign[w], success)} :
          Resume(w, p[1], p[2], pending_requests \ {assign[w].request},
                 [future EXCEPT ![assign[w].request] = "resolved"])

new_node_timeout(w) ==
    /\ assign[w].pc = "new_node"
    /\ \E p \in {Created(NodeMgr, w, assign[w], FALSE)} :
          Resume(w, p[1], p[2], pending_requests,
                 [future EXCEPT ![assign[w].request] = "cancelled"])

\* asyncio.gather of add_new_node_to_peers returns: every request was answered or
\* ran out. assign_to_channel returns True, and so do its callers.
add_new_node_to_peers(w, answered) ==
    /\ assign[w].pc = "notify"
    /\ answered \subseteq {x \in assign[w].targets :
                              wsState[x] = "open" /\ late_parent[x] = None}
    /\ Resume(w, NodeMgr, Returned,
              pending_requests \ {<<x, "add_new_node_to_peers">> : x \in answered},
              future)

\* A reply to a request of the probing path whose wait has run out:
\* handle_c_client_response finds the future done, _process_late_response has no
\* branch for the command, and the entry is deleted.
late_probe_reply(x, command_type) ==
    /\ <<x, command_type>> \in pending_requests
    /\ command_type \in ProbeCommands
    /\ wsState[x] = "open"
    /\ late_parent[x] = None
    /\ \A w \in Sockets :
          /\ assign[w].pc \in {"count_peers", "assign_to"}
                => assign[w].request # <<x, command_type>>
          /\ assign[w].pc = "notify"
                => ~(command_type = "add_new_node_to_peers" /\ x \in assign[w].targets)
    /\ pending_requests' = pending_requests \ {<<x, command_type>>}
    /\ UNCHANGED <<wsState, wsMeta, handlerVars, flagVars, regVars, nmVars, nm_task,
                   broker_tasks, future, set_result_calls, late_calls, replies,
                   late_parent, security_code_record, dbVars, loVars, attVars>>

\* ------------------------------------------------------ cluster attestation
\* _compare_records: every key of the reference is in the client record with the
\* same value, and the client record has no key the reference lacks.
_compare_records(reference_record, client_record) ==
    IF \E key \in DOMAIN reference_record :
           \/ key \notin DOMAIN client_record
           \/ client_record[key] # reference_record[key]
    THEN FALSE
    ELSE IF \E key \in DOMAIN client_record : key \notin DOMAIN reference_record
    THEN FALSE
    ELSE TRUE

\* NodeManager.get_channel_nodes: node ids of the pool's valid connections
get_channel_nodes(N, channel_id, cbl, st) ==
    IF channel_id \notin DOMAIN N.pool.channel THEN <<>>
    ELSE TheOne({[i \in 1..Len(valid_connections) |->
                     N.connection[valid_connections[i]].node_id] :
                 valid_connections \in
                     {SelectSeq(N.pool.channel[channel_id],
                          LAMBDA c : _is_websocket_valid(N.connection[c].websocket, cbl, st))}})

_get_channel_nodes(N, channel_id, exclude_node_id, cbl, st) ==
    SelectSeq(get_channel_nodes(N, channel_id, cbl, st), LAMBDA node : node # exclude_node_id)

\* for connection in connections: send raises on a closed transport (continue);
\* the first connection whose send returns is the one waited on (0: none)
FirstOpen(conns, st) ==
    IF \A i \in 1..Len(conns) : st[conns[i]] # "open" THEN 0
    ELSE conns[CHOOSE i \in 1..Len(conns) :
                   /\ st[conns[i]] = "open"
                   /\ \A j \in 1..(i - 1) : st[conns[j]] # "open"]

SendRaised(conns, st) == conns # <<>> /\ st[conns[1]] # "open"

\* _query_channel_for_valid_batch from the nodes not yet asked, up to the first query
\* whose send returned: _send_node_query gives None for a node without connections or
\* whose sends all raised, and the next node is asked.
RECURSIVE NextWitness(_, _, _, _)
NextWitness(nodes, fault, NC, st) ==
    IF nodes = <<>> THEN [node |-> None, target |-> 0, rest |-> <<>>, fault |-> fault]
    ELSE IF FirstOpen(DictGet(NC, Head(nodes)), st) = 0
    THEN NextWitness(Tail(nodes), fault \/ SendRaised(DictGet(NC, Head(nodes)), st), NC, st)
    ELSE [node |-> Head(nodes), target |-> FirstOpen(DictGet(NC, Head(nodes)), st),
          rest |-> Tail(nodes),
          fault |-> fault \/ SendRaised(DictGet(NC, Head(nodes)), st)]

\* send_session_if_appropriate after verify_user_cluster returned: the result is
\* stored on the websocket, the instance leaves the routing dict, and the session
\* is sent only for success and verification_passed.
Passed(result) == result.success /\ result.verification_passed

Conclude(w, run, result) ==
    /\ cluster_verification_result' = [cluster_verification_result EXCEPT ![w] = result]
    /\ connection_cluster_verification' =
           SelectSeq(connection_cluster_verification, LAMBDA x : x # w)
    /\ bk' = [bk EXCEPT ![w] =
                 IF Passed(result)
                 THEN [run EXCEPT !.pc = "deliver", !.key = NoKey, !.is_set = FALSE,
                                  !.pending = NoData, !.attempt = 0]
                 ELSE [IdleRun EXCEPT !.fault = run.fault]]
    /\ UNCHANGED <<cv_requests, auto_login>>

\* initiate_cluster_verification, step 1: the next witness is asked, or no node gave
\* a valid batch and the joiner is a new user
QueryWitnesses(w, run, nodes, fault) ==
    \E q \in {NextWitness(nodes, fault, node_connections, wsState)} :
        IF q.target # 0
        THEN /\ bk' = [bk EXCEPT ![w] =
                          [run EXCEPT !.pc = "witness", !.nodes = q.rest,
                                      !.key = NodeKey(q.node), !.is_set = FALSE,
                                      !.pending = NoData, !.fault = q.fault]]
             /\ cv_requests' = cv_requests \cup {[to |-> q.target, by |-> w, kind |-> "query"]}
             /\ connection_cluster_verification' =
                    IF w \in SeqToSet(connection_cluster_verification)
                    THEN connection_cluster_verification
                    ELSE Append(connection_cluster_verification, w)
             /\ UNCHANGED <<cluster_verification_result, auto_login>>
        ELSE Conclude(w, [run EXCEPT !.fault = q.fault], Result(TRUE, TRUE, TRUE))

\* The logout check of send_session_if_appropriate, without the check
should_send_session_ignoring_logout(acc) == TRUE

\* should_send_session: False for an account row whose logout flag is set
should_send_session(acc) == ~(acc = "out")

\* send_session_if_appropriate up to its first wait
BrokerStart(w) ==
    /\ bk[w].pc = "idle"
    /\ \E u \in SeqToSet(Users) :
        /\ <<w, u>> \in broker_tasks
        /\ broker_tasks' = broker_tasks \ {<<w, u>>}
        /\ IF u \notin cookie \/ ~should_send_session(account[u])
           THEN /\ bk' = [bk EXCEPT ![w] = [IdleRun EXCEPT !.blocked = u \in cookie]]
                /\ UNCHANGED <<connection_cluster_verification, cv_requests,
                               cluster_verification_result, auto_login>>
           ELSE IF wsMeta[w].channel_id # None /\ wsMeta[w].node_id # None
           THEN QueryWitnesses(w, [IdleRun EXCEPT !.user_id = u],
                    _get_channel_nodes(NodeMgr, wsMeta[w].channel_id, wsMeta[w].node_id,
                                       closed_by_logout, wsState),
                    FALSE)
           ELSE /\ bk' = [bk EXCEPT ![w] = [IdleRun EXCEPT !.user_id = u, !.pc = "deliver"]]
                /\ UNCHANGED <<connection_cluster_verification, cv_requests,
                               cluster_verification_result, auto_login>>
    /\ UNCHANGED <<wsState, wsMeta, handlerVars, flagVars, regVars, nmVars, nm_task, rpcVars,
                   security_code_record, dbVars, loVars, store, syncVars>>

\* handle_verification_response of the instance I for a frame from socket x
handle_verification_response(I, x, data) ==
    IF data.success
    THEN IF wsMeta[x].user_id # None /\ I.key = ClientKey(wsMeta[x].user_id)
         THEN [I EXCEPT !.pending = data, !.is_set = TRUE]
         ELSE IF I.key.kind = "node" /\ ~I.is_set
         THEN [I EXCEPT !.pending = data, !.is_set = TRUE]
         ELSE I
    ELSE IF I.key # NoKey /\ ~I.is_set
    THEN [I EXCEPT !.pending = NoData, !.is_set = TRUE]
    ELSE I

\* The C-Node behind socket x answers one of the frames it was sent, from its own
\* data; handle_cluster_verification_response_to_originator hands the answer to the
\* first instance of the dict that has a waiting event.
ClientAnswer(x) ==
    /\ wsState[x] = "open"
    /\ \E req \in cv_requests :
        /\ req.to = x
        /\ cv_requests' = cv_requests \ {req}
    /\ \E data \in {[success |-> store[x] # NoRecord,
                     batch_id |-> IF store[x] # NoRecord THEN "b1" ELSE None,
                     record |-> store[x]]} :
       \E waiting \in {SelectSeq(connection_cluster_verification,
                           LAMBDA i : bk[i].key # NoKey)} :
           bk' = IF waiting = <<>> THEN bk
                 ELSE [bk EXCEPT ![waiting[1]] = handle_verification_response(@, x, data)]
    /\ UNCHANGED <<wsState, wsMeta, handlerVars, flagVars, regVars, nmVars, taskVars, dbVars, loVars,
                   store, syncVars, connection_cluster_verification, cluster_verification_result,
                   auto_login>>

\* asyncio.wait_for(response_event.wait(), timeout=15.0) raises TimeoutError: the loop
\* over the connections is left and the event is cleaned up. A witness that timed
\* out gave no batch and the next node is asked; a joiner that timed out gave no
\* response and the verification failed.
CvTimeout(w) ==
    /\ bk[w].pc \in {"witness", "joiner"}
    /\ ~bk[w].is_set
    /\ \E run \in {[bk[w] EXCEPT !.key = NoKey, !.pending = NoData, !.fault = TRUE]} :
        IF bk[w].pc = "witness"
        THEN QueryWitnesses(w, run, run.nodes, TRUE)
        ELSE Conclude(w, run, Result(FALSE, FALSE, FALSE))
    /\ UNCHANGED <<wsState, wsMeta, handlerVars, flagVars, regVars, nmVars, taskVars, dbVars, loVars,
                   store, syncVars>>

\* The event was set: the waiting coroutine pops the response.
\* Witness (_query_node_for_batch): a successful response with a batch_id is the valid
\* batch and _request_client_verification sends verify_batch over the connections of
\* user_connections[user_id], once one of them is open (_wait_for_connection_ready
\* gives up after 5 s); any other response gives no batch and the next node is asked.
\* Joiner: the record of the response is compared with the reference record.
CvResume(w) ==
    /\ bk[w].pc \in {"witness", "joiner"}
    /\ bk[w].is_set
    /\ \E response \in {bk[w].pending} :
       \E run \in {[bk[w] EXCEPT !.key = NoKey, !.is_set = FALSE, !.pending = NoData]} :
         IF bk[w].pc = "witness"
         THEN IF response.success /\ response.batch_id # None
              THEN \E conns \in {DictGet(user_connections, run.user_id)} :
                   \E target \in {FirstOpen(conns, wsState)} :
                       IF target = 0
                       THEN Conclude(w, run, Result(FALSE, FALSE, FALSE))
                       ELSE /\ bk' = [bk EXCEPT ![w] =
                                         [run EXCEPT !.pc = "joiner",
                                                     !.key = ClientKey(run.user_id),
                                                     !.valid_batch = response,
                                                     !.fault = @ \/ SendRaised(conns, wsState)]]
                            /\ cv_requests' = cv_requests \cup
                                   {[to |-> target, by |-> w, kind |-> "verify"]}
                            /\ UNCHANGED <<connection_cluster_verification,
                                           cluster_verification_result, auto_login>>
              ELSE QueryWitnesses(w, run, run.nodes, run.fault)
         ELSE Conclude(w, run,
                  IF /\ response.success
                     /\ response.record # NoRecord
                     /\ _compare_records(run.valid_batch.record, response.record)
                  THEN Result(TRUE, FALSE, TRUE)
                  ELSE Result(FALSE, FALSE, FALSE))
    /\ UNCHANGED <<wsState, wsMeta, handlerVars, flagVars, regVars, nmVars, taskVars, dbVars, loVars,
                   store, syncVars>>

\* The C-Node that will open the next socket holds a first record of the batch
SyncData(w, r) ==
    /\ wsState[w] = "new"
    /\ \A v \in Sockets : v < w => wsState[v] # "new"
    /\ store[w] = NoRecord
    /\ store' = [store EXCEPT ![w] = r]
    /\ UNCHANGED <<wsState, wsMeta, handlerVars, flagVars, regVars, nmVars, taskVars, dbVars, loVars,
                   cvVars, syncVars>>

\* ------------------------------------------------------------ session broker
max_retries == 3

\* A pass that writes to the first connection only
SessionTargets_first_only(user_id) ==
    IF user_id \notin DOMAIN user_connections THEN {}
    ELSE {x \in {user_connections[user_id][1]} : wsState[x] = "open"}

\* One pass of send_session_to_client over user_connections[user_id]: the sockets
\* an auto_login frame is written to
SessionTargets(user_id) ==
    IF user_id \notin DOMAIN user_connections THEN {}
    ELSE {x \in SeqToSet(user_connections[user_id]) :
             /\ ~logout_in_progress[x]
             /\ ~closed_by_logout[x]
             /\ wsState[x] = "open"
             /\ Valid(x)}

\* The frame carries the verification result attached to the target socket
AutoLoginFrames(user_id) ==
    [x \in Sockets |->
        IF x \in SessionTargets(user_id)
        THEN [sent |-> TRUE, cluster_verification |-> cluster_verification_result[x]]
        ELSE auto_login[x]]

\* One attempt of send_session_to_client and its wait for the session feedback.
\* An attempt that wrote no frame continues without a suspension until the attempts
\* are used up; feedback from every target returns True; otherwise the next attempt
\* follows the 2 s sleep.
BrokerDeliver(w, acked) ==
    /\ bk[w].pc = "deliver"
    /\ auto_login' = AutoLoginFrames(bk[w].user_id)
    /\ bk' = [bk EXCEPT ![w] =
                 IF \/ SessionTargets(bk[w].user_id) = {}
                    \/ acked
                    \/ bk[w].attempt + 1 >= max_retries
                 THEN [IdleRun EXCEPT !.fault = bk[w].fault]
                 ELSE [@ EXCEPT !.attempt = @ + 1]]
    /\ UNCHANGED <<wsState, wsMeta, handlerVars, flagVars, regVars, nmVars, taskVars, dbVars, loVars,
                   store, syncVars, connection_cluster_verification, cv_requests,
                   cluster_verification_result>>

\* ------------------------------------------- send_session_to_client, by await
\* What a step of send_session_to_client leaves as it is
besideSession == <<wsState, wsMeta, registration_reply, new_device_login, probeVars,
                   feedback_unmatched, flagVars, node_connections, client_connections,
                   nmVars, taskVars, dbVars, loVars, store, bk,
                   connection_cluster_verification, cv_requests,
                   cluster_verification_result, syncVars>>

\* The list the for loop of the call iterates: the list object of the registry,
\* which is changed in place by removals, or the list the call kept
ConnectionsOf(S) ==
    IF S.own THEN S.connections ELSE DictGet(user_connections, S.user_id)

\* The for loop from connection i on, up to the next await: connections with
\* _logout_in_progress, _closed_by_logout or a closed transport are skipped, and the
\* ping is sent to the first other one. After the last connection the call waits
\* for the feedback; with no frame sent the next attempt follows at once, and the
\* call returns False when the attempts are used up.
RECURSIVE NextPing(_, _)
NextPing(S, conns) ==
    IF S.i > Len(conns)
    THEN IF S.successful_connections # {} THEN [S EXCEPT !.pc = "wait", !.websocket = 0]
         ELSE IF S.attempt + 1 >= max_retries THEN [NoSend EXCEPT !.fresh = S.fresh]
         ELSE NextPing([S EXCEPT !.attempt = @ + 1, !.i = 1, !.fresh = TRUE], conns)
    ELSE IF \/ logout_in_progress[conns[S.i]]
            \/ closed_by_logout[conns[S.i]]
            \/ wsState[conns[S.i]] # "open"
    THEN NextPing([S EXCEPT !.i = @ + 1], conns)
    ELSE [S EXCEPT !.pc = "ping", !.websocket = conns[S.i]]

\* The call d goes on as S1 (its locals at the next await): an attempt that was
\* started made a new feedback_tracking dict and set it on all connections.
SessionStep(d, S1, conns, frames, users) ==
    /\ session_send' = [session_send EXCEPT ![d] = [S1 EXCEPT !.fresh = FALSE]]
    /\ feedback_tracking' = IF S1.fresh THEN [feedback_tracking EXCEPT ![d] = {}]
                            ELSE feedback_tracking
    /\ session_feedback_tracking' =
           IF S1.fresh
           THEN [x \in Sockets |-> IF x \in SeqToSet(conns) THEN d
                                   ELSE session_feedback_tracking[x]]
           ELSE session_feedback_tracking
    /\ auto_login' = frames
    /\ user_connections' = users
    /\ UNCHANGED besideSession

\* send_session_to_client is called for user_id (by the broker task of a
\* registration or by /bind) and runs up to its first await
send_session_to_client(d, user_id) ==
    /\ session_send[d].pc = "idle"
    /\ \A e \in Deliveries : e < d => session_send[e].pc # "idle"
    /\ user_id \in DOMAIN user_connections
    /\ \E conns \in {user_connections[user_id]} :
       \E S1 \in {NextPing([NoSend EXCEPT !.user_id = user_id, !.fresh = TRUE], conns)} :
           SessionStep(d, S1, conns, auto_login, user_connections)

\* The ping was sent: the frame is built and, if is_connection_valid holds of the
\* connection, written. A send that raises ConnectionClosed replaces the user's list
\* by one without the connection; in both cases where no frame is written the loop
\* goes on at once.
SessionPinged(d) ==
    /\ session_send[d].pc = "ping"
    /\ \E S \in {session_send[d]} :
       \E conns \in {ConnectionsOf(S)} :
       \E x \in {S.websocket} :
           IF ~Valid(x)
           THEN \E S1 \in {NextPing([S EXCEPT !.i = @ + 1], conns)} :
                    SessionStep(d, S1, conns, auto_login, user_connections)
           ELSE IF wsState[x] = "open"
           THEN SessionStep(d, [S EXCEPT !.pc = "sent",
                                         !.successful_connections = @ \cup {x}],
                            conns,
                            [auto_login EXCEPT ![x] =
                                [sent |-> TRUE,
                                 cluster_verification |-> cluster_verification_result[x]]],
                            user_connections)
           ELSE \E S1 \in {NextPing([S EXCEPT !.i = @ + 1, !.own = TRUE,
                                               !.connections = conns], conns)} :
                    SessionStep(d, S1, conns, auto_login,
                                IF S.user_id \in DOMAIN user_connections
                                THEN [user_connections EXCEPT ![S.user_id] =
                                         SelectSeq(@, LAMBDA c : c # x)]
                                ELSE user_connections)

\* The send of the auto_login frame has returned: the loop goes on
SessionSent(d) ==
    /\ session_send[d].pc = "sent"
    /\ \E S \in {session_send[d]} :
       \E conns \in {ConnectionsOf(S)} :
       \E S1 \in {NextPing([S EXCEPT !.i = @ + 1], conns)} :
           SessionStep(d, S1, conns, auto_login, user_connections)

\* One pass of the wait for the feedback: with all feedback of the connections
\* written to, the tracking attribute is deleted from them and the call returns
\* True; after 5 s it is deleted as well and the call sleeps 2 s before the next
\* attempt, or returns False after the last.
SessionPoll(d, timed_out) ==
    /\ session_send[d].pc = "wait"
    /\ \E S \in {session_send[d]} :
       \E all \in {S.successful_connections \subseteq feedback_tracking[d]} :
           /\ all \/ timed_out
           /\ session_feedback_tracking' =
                  [x \in Sockets |-> IF x \in S.successful_connections THEN 0
                                     ELSE session_feedback_tracking[x]]
           /\ session_send' = [session_send EXCEPT ![d] =
                  IF all \/ S.attempt + 1 >= max_retries THEN NoSend
                  ELSE [S EXCEPT !.pc = "retry"]]
    /\ UNCHANGED <<feedback_tracking, auto_login, user_connections, besideSession>>

\* The sleep before a retry is over: the next attempt
SessionRetry(d) ==
    /\ session_send[d].pc = "retry"
    /\ \E S \in {session_send[d]} :
       \E conns \in {ConnectionsOf(S)} :
       \E S1 \in {NextPing([S EXCEPT !.attempt = @ + 1, !.i = 1,
                                     !.successful_connections = {}, !.fresh = TRUE],
                            conns)} :
           SessionStep(d, S1, conns, auto_login, user_connections)

\* handle_session_feedback for a session_feedback frame read from socket x, which
\* holds an auto_login frame: the connection is marked in the dict its attribute
\* refers to
handle_session_feedback(x) ==
    /\ wsState[x] = "open"
    /\ auto_login[x].sent
    /\ session_feedback_tracking[x] # 0
    /\ x \notin feedback_tracking[session_feedback_tracking[x]]
    /\ feedback_tracking' =
           [feedback_tracking EXCEPT ![session_feedback_tracking[x]] = @ \cup {x}]
    /\ UNCHANGED <<session_send, session_feedback_tracking, auto_login, user_connections,
                   besideSession>>

\* POST /api/cookies: a UserCookie row is written, the account row is not touched
add_cookie(u) ==
    /\ u \notin cookie
    /\ cookie' = cookie \cup {u}
    /\ UNCHANGED <<wsState, wsMeta, handlerVars, flagVars, regVars, nmVars, taskVars, security_codes,
                   account, loVars, attVars>>

\* /bind with a login (_save_and_send_session): save_cookie_to_db, then
\* send_session_to_client with reset_logout_status=True clears the logout flag of
\* the account row and writes the frames
ExplicitLogin(u) ==
    /\ cookie' = cookie \cup {u}
    /\ account' = [account EXCEPT ![u] = IF @ = "none" THEN "none" ELSE "in"]
    /\ auto_login' = AutoLoginFrames(u)
    /\ UNCHANGED <<wsState, wsMeta, handlerVars, flagVars, regVars, nmVars, taskVars, security_codes,
                   loVars, store, syncVars, bk, connection_cluster_verification, cv_requests,
                   cluster_verification_result>>

\* -------------------------------------------------------- activity fan-out
\* Batch ids are minted by the sending C-Client; one batch is in flight at a time.
BatchIds == {"b1"}

\* The url of an activity: its scheme and the labels of its netloc; NoUrl is ''
NoUrl == [scheme |-> None, netloc |-> <<>>]
Site == [scheme |-> "https", netloc |-> <<"comp693nsnproject", "pythonanywhere", "com">>]
SubSite == [scheme |-> "https",
            netloc |-> <<"www", "comp693nsnproject", "pythonanywhere", "com">>]
Elsewhere == [scheme |-> "https", netloc |-> <<"example", "com">>]

\* url_filtering_config of _load_url_filtering_config (the fallback configuration);
\* a pattern scheme://domain/* matches the urls of that scheme and netloc
url_filtering_enabled == TRUE
allowed_domains == {<<"comp693nsnproject", "pythonanywhere", "com">>, <<"localhost:5000">>,
                    <<"127.0.0.1:5000">>}
allowed_patterns == {[scheme |-> "https",
                      netloc |-> <<"comp693nsnproject", "pythonanywhere", "com">>],
                     [scheme |-> "http", netloc |-> <<"localhost:5000">>],
                     [scheme |-> "http", netloc |-> <<"127.0.0.1:5000">>]}

\* domain == allowed_domain or domain.endswith('.' + allowed_domain)
DomainMatches(domain, allowed_domain) ==
    \/ domain = allowed_domain
    \/ /\ Len(domain) > Len(allowed_domain)
       /\ SubSeq(domain, Len(domain) - Len(allowed_domain) + 1, Len(domain)) = allowed_domain

\* _filter_activities_by_url: the activities with a url that an allowed domain or
\* an allowed pattern matches, in their order
_filter_activities_by_url(activities) ==
    IF ~url_filtering_enabled THEN activities
    ELSE SelectSeq(activities,
             LAMBDA url : /\ url # NoUrl
                          /\ \/ \E d \in allowed_domains : DomainMatches(url.netloc, d)
                             \/ \E p \in allowed_patterns :
                                    p.scheme = url.scheme /\ p.netloc = url.netloc)

\* The sync_data of the batches the C-Clients send
Activities == {<<Elsewhere>>, <<Site, Elsewhere>>, <<Elsewhere, SubSite, NoUrl>>}

\* conn.user_id of the ClientConnection c
UserOf(c) ==
    IF connection[c].websocket = 0 THEN None ELSE wsMeta[connection[c].websocket].user_id

\* for domain_id, connections in domain_pool.items(): for conn in connections
DomainWalk ==
    Flatten([j \in 1..Len(TierIds("domain")) |-> DictGet(domain_pool, TierIds("domain")[j])])

\* The next element of the channel's list, from position i on, that the loop sends
\* to (not the sender's user, with a websocket); past the end if there is none
NextTarget(conns, i, user_id) ==
    LET js == {j \in i..Len(conns) :
                 UserOf(conns[j]) # user_id /\ connection[conns[j]].websocket # 0}
    IN  IF js = {} THEN Len(conns) + 1 ELSE CHOOSE j \in js : \A k \in js : j <= k

\* handle_user_activities_batch up to 'await forward_task'. A batch whose activities
\* are all filtered out is answered at once. Otherwise the filtered activities
\* replace the sync_data, the batch info is stored, and the forward task and the
\* feedback task are created; the forward task finds the sender's connection and
\* the list of its channel.
handle_user_activities_batch(w, batch_id, activities) ==
    /\ wsState[w] = "open"
    /\ wsMeta[w].user_id # None
    /\ source_feedback[w] = None
    /\ pending_batches = <<>>
    /\ batch_forward = <<>>
    /\ forward_task.pc = "idle"
    /\ feedback_task = 0
    /\ \E filtered_activities \in {_filter_activities_by_url(activities)} :
        IF filtered_activities = <<>>
        THEN /\ source_feedback' = [source_feedback EXCEPT ![w] = "filtered"]
             /\ UNCHANGED <<pending_batches, forward_task, feedback_task>>
        ELSE /\ pending_batches' =
                    DictPut(pending_batches, batch_id,
                            [user_id |-> wsMeta[w].user_id, forwarded_count |-> 0,
                             feedback_received |-> 0])
             /\ \E found \in {SelectSeq(DomainWalk,
                                         LAMBDA c : UserOf(c) = wsMeta[w].user_id)} :
                    forward_task' =
                        IF found = <<>> THEN NoForward
                        ELSE IF connection[found[1]].channel_id = None THEN NoForward
                        ELSE [pc |-> "sending", source |-> w,
                              user_id |-> wsMeta[w].user_id,
                              channel_id |-> connection[found[1]].channel_id,
                              sync_data |-> filtered_activities, i |-> 1,
                              forwarded_count |-> 0]
             /\ feedback_task' = w
             /\ UNCHANGED source_feedback
    /\ UNCHANGED <<wsState, wsMeta, handlerVars, flagVars, regVars, nmVars, taskVars, dbVars, loVars,
                   store, cvVars, batch_forward>>

\* The feedback task runs: _send_batch_feedback writes 'Batch received and
\* forwarded' to the sender; the exception of a send on a closed socket is logged.
SendBatchFeedback ==
    /\ feedback_task # 0
    /\ feedback_task' = 0
    /\ source_feedback' =
           IF wsState[feedback_task] = "open"
           THEN [source_feedback EXCEPT ![feedback_task] = "forwarded"]
           ELSE source_feedback
    /\ UNCHANGED <<wsState, wsMeta, handlerVars, flagVars, regVars, nmVars, taskVars, dbVars, loVars,
                   store, cvVars, pending_batches, forward_task, batch_forward>>

\* _forward_to_channel_nodes between two suspensions: the loop skips the elements it
\* does not send to, awaits _send_to_node for the next one (the send raises on a
\* closed socket) and goes on; after the last element it writes its forwarded_count
\* to the batch info, if the batch is still pending.
ForwardStep(batch_id) ==
    /\ forward_task.pc = "sending"
    /\ \E conns \in {DictGet(channel_pool, forward_task.channel_id)} :
       \E j \in {NextTarget(conns, forward_task.i, forward_task.user_id)} :
       \E sent \in {j <= Len(conns) /\ wsState[connection[conns[j]].websocket] = "open"} :
       \E count \in {forward_task.forwarded_count + (IF sent THEN 1 ELSE 0)} :
       \E last \in {NextTarget(conns, j + 1, forward_task.user_id) > Len(conns)} :
           /\ batch_forward' =
                  IF sent THEN DictPut(batch_forward, connection[conns[j]].websocket,
                                       forward_task.sync_data)
                  ELSE batch_forward
           /\ forward_task' = IF last THEN NoForward
                              ELSE [forward_task EXCEPT !.i = j + 1, !.forwarded_count = count]
           /\ pending_batches' =
                  IF last /\ batch_id \in DOMAIN pending_batches
                  THEN [pending_batches EXCEPT ![batch_id].forwarded_count = count]
                  ELSE pending_batches
    /\ UNCHANGED <<wsState, wsMeta, handlerVars, flagVars, regVars, nmVars, taskVars, dbVars, loVars,
                   store, cvVars, feedback_task, source_feedback>>

\* handle_batch_feedback: the C-Client behind socket w acknowledges the batch that
\* was forwarded to it. The message loop of the batch's sender reads no frame while
\* it awaits the forward task.
handle_batch_feedback(w, batch_id) ==
    /\ wsState[w] = "open"
    /\ w \in DOMAIN batch_forward
    /\ forward_task.source # w
    /\ batch_forward' = DictDel(batch_forward, w)
    /\ pending_batches' =
           IF batch_id \notin DOMAIN pending_batches THEN pending_batches
           ELSE IF pending_batches[batch_id].feedback_received + 1
                     >= pending_batches[batch_id].forwarded_count
           THEN DictDel(pending_batches, batch_id)
           ELSE [pending_batches EXCEPT ![batch_id].feedback_received = @ + 1]
    /\ UNCHANGED <<wsState, wsMeta, handlerVars, flagVars, regVars, nmVars, taskVars, dbVars, loVars,
                   store, cvVars, forward_task, feedback_task, source_feedback>>

\* ------------------------------------------------------------ specifications
Connections ==
    \/ \E w \in Connecting, u \in Fresh(Users, UsedUsers), c \in Fresh(Clients, UsedClients),
          n \in Fresh(Nodes, UsedNodes), ids \in Advertised :
          Register(w, u, c, n, ids, FALSE, FALSE, FALSE)
    \/ \E w \in Sockets : TransportClose(w)
    \/ \E w \in Sockets, kind \in {"ok", "error"} : HandlerExit(w, kind)

Logout ==
    \/ \E u \in UsedUsers, c \in UsedClients \cup {None} : LogoutRequest(u, c)
    \/ LogoutNotify
    \/ LogoutSend
    \/ LogoutPoll
    \/ LogoutClear
    \/ LogoutCleanup
    \/ LogoutReturn
    \/ \E w \in Sockets : handle_logout_feedback(w)

Dispatcher ==
    \/ \E r \in Requests : RpcTimeout(r[1], r[2])
    \/ \E r \in Requests, success \in BOOLEAN : RpcResponse(r[1], r[2], success)

\* Registrations, disconnections and logout requests
Next == Connections \/ Logout

Spec == Init /\ [][Next]_vars

\* Registrations, disconnections and logout requests, with C-Clients that
\* reconnect while the barrier waits and acknowledge on their new socket
NextAck == Connections \/ Logout \/ \E w \in Sockets : logout_feedback_after_reconnect(w)

SpecAck == Init /\ [][NextAck]_vars

\* Cookie deliveries next to a logout: the sessions of one user, each on a client
\* and a node of its own, advertise all tier ids, register while no delivery and no
\* logout is under way, and lose their transport; calls of send_session_to_client
\* overlap with each other and with the barrier, and the C-Clients acknowledge the
\* frames they hold.
SessionEnv ==
    \/ \E w \in Connecting, u \in {Users[1]}, c \in Fresh(Clients, UsedClients) \ UsedClients,
          n \in Fresh(Nodes, UsedNodes) \ UsedNodes :
          /\ \A d \in Deliveries : session_send[d].pc = "idle"
          /\ lo.pc = "idle"
          /\ Register(w, u, c, n, FullIds, FALSE, FALSE, FALSE)
    \/ \E w \in Sockets : TransportClose(w)

SessionBroker ==
    \/ \E d \in Deliveries, u \in UsedUsers : send_session_to_client(d, u)
    \/ \E d \in Deliveries : SessionPinged(d)
    \/ \E d \in Deliveries : SessionSent(d)
    \/ \E d \in Deliveries, timed_out \in BOOLEAN : SessionPoll(d, timed_out)
    \/ \E d \in Deliveries : SessionRetry(d)
    \/ \E x \in Sockets : handle_session_feedback(x)

NextSession == SessionEnv \/ SessionBroker

SpecSession == Init /\ [][NextSession]_vars

\* One call of send_session_to_client at a time, next to the barrier of a logout
\* of all sessions of the user
SessionAlone ==
    \/ \E u \in UsedUsers : send_session_to_client(1, u)
    \/ SessionPinged(1)
    \/ SessionSent(1)
    \/ \E timed_out \in BOOLEAN : SessionPoll(1, timed_out)
    \/ SessionRetry(1)
    \/ \E x \in Sockets : handle_session_feedback(x)

LogoutOfUser ==
    \/ \E u \in UsedUsers : LogoutRequest(u, None)
    \/ LogoutNotify
    \/ LogoutSend
    \/ LogoutPoll
    \/ LogoutClear
    \/ LogoutCleanup
    \/ LogoutReturn
    \/ \E w \in Sockets : handle_logout_feedback(w)

NextSessionLogout == SessionEnv \/ LogoutOfUser \/ SessionAlone

SpecSessionLogout == Init /\ [][NextSessionLogout]_vars

\* What the C-Clients do around a barrier: sessions that advertise all tier ids
\* register, lose their transport, and their handlers leave the message loop.
BarrierEnv ==
    \/ \E w \in Connecting, u \in Fresh(Users, UsedUsers), c \in Fresh(Clients, UsedClients),
          n \in Fresh(Nodes, UsedNodes) : Register(w, u, c, n, FullIds, FALSE, FALSE, FALSE)
    \/ \E w \in Sockets : TransportClose(w)
    \/ \E w \in Sockets : HandlerExit(w, "ok")

NextBarrier == BarrierEnv \/ Logout

\* The barrier is a coroutine driven by run_until_complete: the gather of the sends
\* returns (exceptions are collected), every asyncio.sleep of the wait loop ends, and
\* the final loop has no suspension. Nothing is assumed of the C-Clients.
FairSpec ==
    /\ Init
    /\ [][NextBarrier]_vars
    /\ WF_vars(LogoutSend) /\ WF_vars(LogoutPoll) /\ WF_vars(LogoutClear)

\* Registrations, disconnections and the placement requests of the RPC dispatcher
NextRpc == Connections \/ Dispatcher

SpecRpc == Init /\ [][NextRpc]_vars

\* The dispatcher with C-Clients that send response frames carrying the request id
\* of a request that was sent to another session
NextForeign ==
    \/ Connections
    \/ Dispatcher
    \/ \E x \in Sockets, r \in Requests, success \in BOOLEAN :
          ForeignResponse(x, r[1], r[2], success)

SpecForeign == Init /\ [][NextForeign]_vars

\* The session broker with cluster attestation: C-Nodes that hold data register on
\* any tier, lose their transport and answer the verification frames; the
\* credential store stays as it is.
Attestation ==
    \/ \E w \in Connecting, r \in Records : SyncData(w, r)
    \/ \E w \in Sockets : BrokerStart(w)
    \/ \E x \in Sockets : ClientAnswer(x)
    \/ \E w \in Sockets : CvTimeout(w)
    \/ \E w \in Sockets : CvResume(w)
    \/ \E w \in Sockets, acked \in BOOLEAN : BrokerDeliver(w, acked)

NextAttest == BarrierEnv \/ Attestation

SpecAttest == Init /\ [][NextAttest]_vars

\* The session broker and the credential store: sessions that advertise no channel
\* register (by user id or by pairing code), ask for pairing codes and disconnect;
\* /bind logs a user out and users in; cookies are written through the API. Of a
\* logout request the broker can observe _delete_user_data, its first step; the
\* barrier that follows is the subject of Spec and FairSpec.
BrokerEnv ==
    \/ \E w \in Connecting, u \in Fresh(Users, UsedUsers), c \in Fresh(Clients, UsedClients),
          n \in Fresh(Nodes, UsedNodes), by_code \in BOOLEAN :
          Register(w, u, c, n, NoChannelIds, by_code, FALSE, FALSE)
    \/ \E w \in Sockets : handle_security_code_request(w)
    \/ \E w \in Sockets : TransportClose(w)
    \/ \E w \in Sockets : HandlerExit(w, "ok")

CredentialStore ==
    \/ \E u \in UsedUsers, c \in UsedClients \cup {None} : LogoutRequest(u, c)
    \/ \E u \in UsedUsers : add_cookie(u)
    \/ \E u \in UsedUsers : ExplicitLogin(u)

Broker ==
    \/ \E w \in Sockets : BrokerStart(w)
    \/ \E w \in Sockets, acked \in BOOLEAN : BrokerDeliver(w, acked)

NextBroker == BrokerEnv \/ CredentialStore \/ Broker

SpecBroker == Init /\ [][NextBroker]_vars

\* Cookie delivery: sessions that advertise no channel register and disconnect, and
\* the broker runs of their users deliver the cookie. The event loop runs
\* send_session_to_client: its sends complete and its sleeps (0.5 s in the wait for
\* the feedback, 2 s before a retry) end.
DeliverEnv ==
    \/ \E w \in Connecting, u \in Fresh(Users, UsedUsers), c \in Fresh(Clients, UsedClients),
          n \in Fresh(Nodes, UsedNodes) :
          Register(w, u, c, n, NoChannelIds, FALSE, FALSE, FALSE)
    \/ \E w \in Sockets : TransportClose(w)
    \/ \E w \in Sockets : HandlerExit(w, "ok")

NextDeliver == DeliverEnv \/ Broker

FairDeliver ==
    /\ Init
    /\ [][NextDeliver]_vars
    /\ \A w \in Sockets : WF_vars(\E acked \in BOOLEAN : BrokerDeliver(w, acked))

\* Placement in the hierarchy: every C-Client has a user, an installation and a
\* node id of its own and advertises none, some or all of its tier ids; sessions lose their transport and
\* their handlers leave the message loop; the agents answer the placement requests
\* in time, late, more than once or never.
PlaceEnv ==
    \/ \E w \in Connecting, u \in Fresh(Users, UsedUsers) \ UsedUsers,
          c \in Fresh(Clients, UsedClients) \ UsedClients,
          n \in Fresh(Nodes, UsedNodes) \ UsedNodes,
          ids \in {NoIds, DomainOnly, NoChannelIds, FullIds}, is_main \in BOOLEAN :
          Register(w, u, c, n, ids, FALSE, is_main, FALSE) /\ assign'[w] = NoAssign
    \/ \E w \in Sockets : TransportClose(w)
    \/ \E w \in Sockets, kind \in {"ok", "error"} : HandlerExit(w, kind)

NextPlace == PlaceEnv \/ Dispatcher

SpecPlace == Init /\ [][NextPlace]_vars

\* The handler of a socket whose transport is gone leaves its message loop (the
\* iteration over the websocket ends or raises), and asyncio.wait_for of a pending
\* request runs out after 30 s. Nothing is assumed of the C-Clients.
FairPlace ==
    /\ Init
    /\ [][NextPlace]_vars
    /\ \A w \in Sockets : WF_vars(HandlerExit(w, "ok") \/ HandlerExit(w, "error"))
    /\ \A r \in Requests : WF_vars(RpcTimeout(r[1], r[2]))

\* Placement with the agents' own reports, while every session stays connected:
\* C-Clients that advertise all tier ids or none register, as heads of their channel
\* or not, and report with assignConfirmed the placement they hold, which may name
\* another channel than the coordinator recorded.
AssignEnv ==
    \/ \E w \in Connecting, u \in Fresh(Users, UsedUsers) \ UsedUsers,
          c \in Fresh(Clients, UsedClients) \ UsedClients,
          n \in Fresh(Nodes, UsedNodes) \ UsedNodes,
          ids \in {NoIds, FullIds}, is_main \in BOOLEAN :
          Register(w, u, c, n, ids, FALSE, is_main, FALSE) /\ assign'[w] = NoAssign
    \/ \E w \in Sockets, ids \in {FullIds, OtherChannel} : assignConfirmed(w, ids)

NextAssign == AssignEnv \/ Dispatcher

SpecAssign == Init /\ [][NextAssign]_vars

\* Placement of sessions that join the tiers they find, while every session stays
\* connected: a C-Client that holds a placement registers with all its tier ids, and
\* the C-Clients after it register with its domain and cluster, or with no id; the
\* agents answer the requests in time, late or never, and a count of peers is below
\* the capacity or at it.
ProbeEnv ==
    \E w \in Connecting, u \in Fresh(Users, UsedUsers) \ UsedUsers,
       c \in Fresh(Clients, UsedClients) \ UsedClients,
       n \in Fresh(Nodes, UsedNodes) \ UsedNodes,
       ids \in IF domain_pool = <<>> THEN {FullIds} ELSE {NoIds, NoChannelIds},
       is_main \in BOOLEAN :
       Register(w, u, c, n, ids, FALSE, is_main, FALSE)

Probing ==
    \/ \E w \in Sockets, success \in BOOLEAN, count \in {0, MaxChildren} :
          count_peers_reply(w, success, count)
    \/ \E w \in Sockets : count_peers_timeout(w)
    \/ \E w \in Sockets, success \in BOOLEAN : assign_to_reply(w, success)
    \/ \E w \in Sockets : assign_to_timeout(w)
    \/ \E w \in Sockets, success \in BOOLEAN : new_node_reply(w, success)
    \/ \E w \in Sockets : new_node_timeout(w)
    \/ \E w \in Sockets, answered \in SUBSET Sockets : add_new_node_to_peers(w, answered)
    \/ \E x \in Sockets, command_type \in ProbeCommands : late_probe_reply(x, command_type)

NextProbe == ProbeEnv \/ Dispatcher \/ Probing

SpecProbe == Init /\ [][NextProbe]_vars

\* Pairing codes: sessions register, a session asks for its user's code, new
\* devices present the code, and a registration handler that waits for the network
\* deletes the code row when it resumes.
PairEnv ==
    \/ \E w \in Sockets, u \in Fresh(Users, UsedUsers), c \in Fresh(Clients, UsedClients),
          n \in Fresh(Nodes, UsedNodes) :
          Register(w, u, c, n, FullIds, FALSE, FALSE, FALSE)
    \/ \E w \in Sockets : handle_security_code_request(w)
    \/ \E w \in Sockets, u \in security_codes, c \in Fresh(Clients, UsedClients),
          n \in Fresh(Nodes, UsedNodes), suspends \in BOOLEAN :
          Register(w, u, c, n, FullIds, TRUE, FALSE, suspends)
    \/ \E w \in Sockets : DeleteSecurityCode(w)
    \/ \E w \in Sockets : TransportClose(w)
    \/ \E w \in Sockets : HandlerExit(w, "ok")

SpecPair == Init /\ [][PairEnv]_vars

\* New device logins of clients that are connected: the handler of the new socket
\* removes and closes the old connections of its client and goes on when the close
\* handshake is over; other sockets register in between.
BindEnv ==
    \/ \E w \in Sockets, u \in Fresh(Users, UsedUsers), c \in Fresh(Clients, UsedClients),
          n \in Fresh(Nodes, UsedNodes) :
          Register(w, u, c, n, FullIds, FALSE, FALSE, FALSE)
    \/ \E w \in Sockets : handle_security_code_request(w)
    \/ \E w \in Sockets, u \in security_codes, c \in Fresh(Clients, UsedClients),
          n \in Fresh(Nodes, UsedNodes) :
          /\ \A x \in SeqToSet(DictGet(client_connections, c)) : wsState[x] # "open"
          /\ Register(w, u, c, n, FullIds, TRUE, FALSE, FALSE)
    \/ \E w \in Sockets, u \in security_codes, c \in Fresh(Clients, UsedClients),
          n \in Fresh(Nodes, UsedNodes) : NewDeviceLogin(w, u, c, n, FullIds)
    \/ \E w \in Sockets : NewDeviceResume(w)
    \/ \E w \in Sockets : TransportClose(w)
    \/ \E w \in Sockets : HandlerExit(w, "ok")

SpecBind == Init /\ [][BindEnv]_vars

\* Activity fan-out: C-Clients with a node of their own register on one channel,
\* lose their transport, send a batch and acknowledge the batches forwarded to them.
SyncEnv ==
    \/ \E w \in Sockets, u \in Fresh(Users, UsedUsers),
          c \in Fresh(Clients, UsedClients) \ UsedClients,
          n \in Fresh(Nodes, UsedNodes) \ UsedNodes :
          Register(w, u, c, n, FullIds, FALSE, FALSE, FALSE)
    \/ \E w \in Sockets : TransportClose(w)
    \/ \E w \in Sockets : HandlerExit(w, "ok")

FanOut ==
    \/ \E w \in Sockets, batch_id \in BatchIds, activities \in Activities :
          handle_user_activities_batch(w, batch_id, activities)
    \/ \E batch_id \in BatchIds : ForwardStep(batch_id)
    \/ SendBatchFeedback
    \/ \E w \in Sockets, batch_id \in BatchIds : handle_batch_feedback(w, batch_id)

NextSync == SyncEnv \/ FanOut

SpecSync == Init /\ [][NextSync]_vars

\* The event loop runs a task that was created and is ready. Nothing is assumed of
\* the C-Clients: a peer that does not read keeps websocket.send of the forward
\* task suspended.
FairSync == Init /\ [][NextSync]_vars /\ WF_vars(SendBatchFeedback)

\* The fan-out with C-Clients that do their part: every send of the forward task
\* completes and every peer that holds a forwarded batch and stays connected
\* acknowledges it. cleanup_old_batches is a method that nothing calls: the
\* application schedules cleanup_old_security_codes only, so no step of the
\* program removes a batch by its age.
FairBatch ==
    /\ Init
    /\ [][NextSync]_vars
    /\ WF_vars(SendBatchFeedback)
    /\ \A batch_id \in BatchIds : WF_vars(ForwardStep(batch_id))
    /\ \A w \in Sockets, batch_id \in BatchIds : WF_vars(handle_batch_feedback(w, batch_id))

\* ------------------------------------------------------------------ claims
\* The sessions of the user of the logout in flight: the sockets that were in the
\* user's bucket of user_connections when the barrier was entered.
LogoutOfAll == lo.pc \in {"cleanup", "done"} /\ lo.client_id = None

InHierarchy(x) == InPools(NodeMgr, x) /\ connection[x].websocket = x

InAllIndices(x) ==
    /\ \E k \in DOMAIN node_connections : x \in SeqToSet(node_connections[k])
    /\ \E k \in DOMAIN user_connections : x \in SeqToSet(user_connections[k])
    /\ \E k \in DOMAIN client_connections : x \in SeqToSet(client_connections[k])

\* The barrier has marked the session and has not yet cleared its ack tracking.
InBarrierWindow(x) == logout_in_progress[x] \/ logout_feedback_tracking[x]

\* The steps that sweep the registry or the hierarchy for invalid sessions
CleanupStep == LogoutClear \/ LogoutCleanup

\* C6: while the barrier holds a session marked (logout_in_progress, then ack
\* tracking), both validity predicates report it valid, and no sweep for invalid
\* sessions takes it out of the registry or out of the hierarchy pools.
C6_NoEvictionInBarrierWindow ==
    [][CleanupStep =>
          \A x \in Sockets :
              (InBarrierWindow(x) /\ InBarrierWindow(x)') =>
                  /\ InRegistry(Registry, x) => InRegistry(Registry, x)'
                  /\ InHierarchy(x) => InHierarchy(x)']_vars

\* The barrier of the logout in flight has run and has returned.
BarrierReturned == lo.pc \in {"cleanup", "done"} /\ lo.user_websockets # <<>>

\* C8: once the barrier has finished, by acks or by timeout, no targeted session
\* is left in the domain, cluster or channel pool.
C8_TargetsLeftHierarchy ==
    BarrierReturned => \A x \in SeqToSet(lo.user_websockets) : ~InHierarchy(x)

\* C9: a logout that names a client writes user_logout only to the user's sessions
\* on that client and takes only those out of the three indices: a session with an
\* open transport on another client gets no frame and stays in all three indices.
C9_OtherClientsUntouched ==
    [][(lo.client_id # None /\ (LogoutNotify \/ LogoutSend \/ LogoutClear \/ LogoutCleanup)) =>
          \A x \in Sockets :
              (wsMeta[x].client_id # lo.client_id /\ wsState[x] = "open") =>
                  /\ x \in user_logout_sent' => x \in user_logout_sent
                  /\ InAllIndices(x) => InAllIndices(x)']_vars
\* The barrier is running: targets are marked and it has not returned.
BarrierRunning == lo.pc \in {"sending", "wait", "clear"}

\* C7: every run of the barrier returns, by all acks or else when the wait has
\* expired, whatever the targeted sessions do.
C7_BarrierCompletes == BarrierRunning ~> BarrierReturned

\* The barrier has returned on the timeout: a target never acked and its transport
\* is gone.
C7_Witness ==
    /\ lo.pc = "cleanup"
    /\ lo.polls = MaxPolls
    /\ \E x \in SeqToSet(lo.user_websockets) :
           x \notin lo.feedback_received /\ wsState[x] \in {"closed", "closed_1000"}
\* C10: for every request id the future is resolved at most once; a future that
\* timed out is never resolved afterwards, and a reply that arrives for it is taken
\* off pending_requests by the late path (_process_late_response when it reports
\* success), not by set_result.
C10_ResolvedAtMostOnce ==
    [][\A r \in Requests :
          /\ set_result_calls'[r] <= 1
          /\ future[r] = "cancelled" =>
                 /\ future'[r] = "cancelled"
                 /\ set_result_calls'[r] = set_result_calls[r]
          /\ \A success \in BOOLEAN :
                 (RpcResponse(r[1], r[2], success) /\ future[r] = "cancelled"
                      /\ r \in pending_requests) =>
                     /\ late_calls'[r] = late_calls[r] + (IF success THEN 1 ELSE 0)
                     /\ r \notin pending_requests' \/ late_parent'[r[1]] = r[2]]_vars

\* A request timed out, a successful reply came late and was processed by the late
\* path, and one more reply with the same request id was dropped.
C10_Witness ==
    \E r \in Requests :
        /\ future[r] = "cancelled"
        /\ late_calls[r] = 1
        /\ replies[r] = 2
        /\ set_result_calls[r] = 0
\* A frame whose cluster_verification field is a verification that did not pass
FailedVerdict(frame) ==
    frame.sent /\ frame.cluster_verification.present /\ ~Passed(frame.cluster_verification)

\* The attestation of the run of socket w ends in this step, and it failed
AttestationFails(w) ==
    /\ bk[w].pc \in {"idle", "witness", "joiner"}
    /\ cluster_verification_result'[w] # cluster_verification_result[w]
    /\ ~Passed(cluster_verification_result'[w])

\* C2: a socket whose attestation failed is written no auto_login frame (no frame
\* carries a failed verification of its target), and the step in which an
\* attestation fails leaves the registry, the pools and every socket as they were.
C2_FailedAttestationBlocksDelivery ==
    [][/\ \A x \in Sockets : ~FailedVerdict(auto_login'[x])
       /\ \A w \in Sockets :
              AttestationFails(w) => UNCHANGED <<wsState, wsMeta, handlerVars, regVars, nmVars>>]_vars

\* C3: when an attestation passes on a witness batch, the reference record is the
\* first record a witness holds and the joiner's own first record is equal to it,
\* key for key and value for value.
C3_SuccessMeansEqualRecords ==
    [][\A w \in Sockets :
          (bk[w].pc = "joiner" /\ bk'[w].pc = "deliver")
              => /\ store[w] = bk[w].valid_batch.record
                 /\ \E x \in Sockets \ {w} : store[x] = bk[w].valid_batch.record]_vars

\* C4: an attestation in which a query timed out or a send raised does not pass.
C4_FaultMeansFailed ==
    \A w \in Sockets :
        (bk[w].fault /\ bk[w].pc \notin {"witness", "joiner"})
            => ~Passed(cluster_verification_result[w])

\* The run of the task scheduled for socket w and user u starts in this step
BrokerStarts(w, u) ==
    /\ <<w, u>> \in broker_tasks
    /\ <<w, u>> \notin broker_tasks'
    /\ bk[w].pc = "idle"

\* C5: a broker run that finds a cookie for its user and the logout flag of the
\* account set stops there: it writes no auto_login frame and does not go on to
\* attestation or delivery.
C5_LoggedOutBrokerStops ==
    [][\A w \in Sockets, u \in SeqToSet(Users) :
          (BrokerStarts(w, u) /\ u \in cookie /\ account[u] = "out")
              => (bk'[w].pc = "idle" /\ auto_login' = auto_login)]_vars

\* An open session whose broker run was stopped by the logout flag while the cookie
\* is in the store, and which was written no frame
C5_Witness ==
    \E w \in Sockets :
        /\ wsState[w] = "open"
        /\ bk[w].blocked
        /\ wsMeta[w].user_id \in cookie
        /\ account[wsMeta[w].user_id] = "out"
        /\ ~auto_login[w].sent

\* C11: when the 30 s of a request run out its entry stays in pending_requests;
\* a successful reply that arrives afterwards is processed by
\* _process_late_response: the id it carries is then the session's id for that
\* tier, and after a domain or a cluster the request for the next tier is pending.
C11_LateReplyAdvancesPlacement ==
    [][\A r \in Requests :
          /\ RpcTimeout(r[1], r[2]) => r \in pending_requests'
          /\ (RpcResponse(r[1], r[2], TRUE) /\ future[r] = "cancelled"
                 /\ r \in pending_requests) =>
                /\ late_calls'[r] = late_calls[r] + 1
                /\ IdOf(connection'[r[1]], LevelOf(r[2])) = NewId(LevelOf(r[2]), r[1])
                /\ r[2] # "new_channel_node" =>
                       future'[<<r[1], NextCommand(r[2])>>] = "pending"]_vars

\* A live session: a registered socket whose transport is open and which the
\* registry's validity predicate accepts.
Live(x) == wsState[x] = "open" /\ wsMeta[x].node_id # None /\ Valid(x)

\* The keys of the buckets of an index that hold x
BucketsOf(d, x) == {k \in DOMAIN d : x \in SeqToSet(d[k])}

SameTriple(w, user_id, client_id, node_id) ==
    \E x \in Sockets \ {w} :
        /\ InRegistry(Registry, x)
        /\ Valid(x)
        /\ wsMeta[x].node_id = node_id
        /\ wsMeta[x].client_id = client_id
        /\ wsMeta[x].user_id = user_id

\* C13: a registration (without pairing code) that names the node, installation
\* and user of a session that is still valid leaves the three registry indices as
\* they were, and the new socket is closed by the server with code 1000.
C13_DuplicateRegistrationIdempotent ==
    [][\A w \in Sockets : (wsState[w] = "new" /\ wsState'[w] # "new") =>
          \A user_id \in SeqToSet(Users), client_id \in SeqToSet(Clients),
             node_id \in SeqToSet(Nodes), ids \in {NoIds, DomainOnly, NoChannelIds, FullIds},
             is_main \in BOOLEAN :
              (SameTriple(w, user_id, client_id, node_id)
                 /\ Register(w, user_id, client_id, node_id, ids, FALSE, is_main, FALSE)) =>
                  /\ node_connections' = node_connections
                  /\ user_connections' = user_connections
                  /\ client_connections' = client_connections
                  /\ wsState'[w] = "closed_1000"]_vars

\* The second socket of a node, installation and user was closed with code 1000
\* before any placement started for it, and the first session is alone in the
\* bucket of its node.
C13_Witness ==
    \E x \in Sockets : \E y \in Sockets \ {x} :
        /\ wsState[x] = "open" /\ Valid(x)
        /\ node_connections = DictPut(<<>>, wsMeta[x].node_id, <<x>>)
        /\ wsState[y] = "closed_1000" /\ nm_task[y] = "none"
        /\ wsMeta[y].node_id = wsMeta[x].node_id
        /\ wsMeta[y].client_id = wsMeta[x].client_id
        /\ wsMeta[y].user_id = wsMeta[x].user_id

\* C14: a registration that presents a pairing code and runs to its end leaves no
\* row of that code; no registration presenting a code goes through while the
\* handler of another socket is still processing a registration with the same code;
\* and when a suspended handler has resumed and finished, the row does not exist.
C14_PairingCodeSingleUse ==
    [][/\ \A w \in Sockets : (wsState[w] = "new" /\ wsState'[w] # "new") =>
             \A user_id \in SeqToSet(Users), client_id \in SeqToSet(Clients),
                node_id \in SeqToSet(Nodes), suspends \in BOOLEAN,
                ids \in {NoIds, DomainOnly, NoChannelIds, FullIds}, is_main \in BOOLEAN :
                 Register(w, user_id, client_id, node_id, ids, TRUE, is_main, suspends) =>
                     /\ ~suspends => user_id \notin security_codes'
                     /\ \A x \in Sockets \ {w} : security_code_record[x] # user_id
       /\ \A w \in Sockets :
             DeleteSecurityCode(w) => security_code_record[w] \notin security_codes']_vars

\* C15: whenever a batch_feedback is counted for a pending batch, the acks counted
\* do not exceed the batch's forwarded_count, and if the batch is evicted in that
\* step the two numbers are equal.
C15_FanOutAccounting ==
    [][\A w \in Sockets, batch_id \in BatchIds :
          (handle_batch_feedback(w, batch_id) /\ batch_id \in DOMAIN pending_batches) =>
              /\ pending_batches[batch_id].feedback_received + 1
                     <= pending_batches[batch_id].forwarded_count
              /\ batch_id \notin DOMAIN pending_batches' =>
                     pending_batches[batch_id].feedback_received + 1
                         = pending_batches[batch_id].forwarded_count]_vars

\* The children of a tier as the pools show them: the nodes of a channel, the
\* channels of the nodes of a cluster, the clusters of the nodes of a domain
Children(level, id) ==
    IF level = "channel" THEN SeqToSet(channel_pool[id])
    ELSE IF level = "cluster"
    THEN {connection[c].channel_id : c \in SeqToSet(cluster_pool[id])} \ {None}
    ELSE {connection[c].cluster_id : c \in SeqToSet(domain_pool[id])} \ {None}

\* C16: no domain, cluster or channel holds more children than the capacity of a
\* tier, by whichever path its sessions were placed.
C16_CapacityRespected ==
    /\ \A id \in DOMAIN domain_pool : Cardinality(Children("domain", id)) <= MaxChildren
    /\ \A id \in DOMAIN cluster_pool : Cardinality(Children("cluster", id)) <= MaxChildren
    /\ \A id \in DOMAIN channel_pool : Cardinality(Children("channel", id)) <= MaxChildren

\* The ids of the pools of a level that hold the ClientConnection c
PoolsOf(level, c) ==
    {id \in DOMAIN NodeMgr.pool[level] : c \in SeqToSet(NodeMgr.pool[level][id])}

\* C17: at every level a ClientConnection is in at most one pool, and a pool that
\* holds it is the pool of the connection's own id for that level.
C17_OnePoolPerLevel ==
    \A c \in Sockets : \A i \in 1..3 :
        PoolsOf(Levels[i], c) \subseteq {IdOf(connection[c], Levels[i])}

\* C18: a ClientConnection of an open socket whose head flag is set for a level is
\* in the pool of that level that has the connection's own id.
C18_HeadIsMember ==
    \A c \in Sockets : (connection[c].websocket # 0 /\ wsState[connection[c].websocket] = "open") =>
        /\ connection[c].is_domain_main_node => connection[c].domain_id \in PoolsOf("domain", c)
        /\ connection[c].is_cluster_main_node => connection[c].cluster_id \in PoolsOf("cluster", c)
        /\ connection[c].is_channel_main_node => connection[c].channel_id \in PoolsOf("channel", c)

\* The head flag of a ClientConnection for a level
IsMainNode(conn, level) ==
    IF level = "domain" THEN conn.is_domain_main_node
    ELSE IF level = "cluster" THEN conn.is_cluster_main_node
    ELSE conn.is_channel_main_node

\* The connected members of a pool that carry the head flag of its level
Heads(level, id) ==
    {c \in SeqToSet(NodeMgr.pool[level][id]) :
        /\ IsMainNode(connection[c], level)
        /\ connection[c].websocket # 0
        /\ wsState[connection[c].websocket] = "open"}

\* C19: every domain, cluster and channel has at most one connected head, and a
\* head is the first member of its pool, the session the pool was created for.
C19_OneHeadTheCreator ==
    \A i \in 1..3 : \A id \in DOMAIN NodeMgr.pool[Levels[i]] :
        /\ Cardinality(Heads(Levels[i], id)) <= 1
        /\ \A c \in Heads(Levels[i], id) : NodeMgr.pool[Levels[i]][id][1] = c

\* The waiting keys that correspond to a frame sent by socket x: the node id of x,
\* or client_<user_id> of x
KeysOf(x) == {NodeKey(wsMeta[x].node_id), ClientKey(wsMeta[x].user_id)}

\* C20: a cluster_verification_response changes the state of no instance other than
\* one whose waiting key is the node id or client_<user_id> of the socket that sent it.
C20_ResponseRoutedByKey ==
    [][\A req \in cv_requests \ cv_requests' : \A i \in Sockets :
          bk'[i] # bk[i] => bk[i].key \in KeysOf(req.to)]_vars

\* Some pool of the NodeManager holds a ClientConnection of socket w
SessionInPools(w) ==
    \E c \in SeqToSet(PoolWalk(NodeMgr)) : connection[c].websocket = w

\* C21: once the transport of a socket is closed, its session leaves the three
\* registry indices and every domain, cluster and channel pool, also when its
\* placement requests were still pending at the time.
C21_CloseCascades ==
    \A w \in Sockets :
        (wsState[w] \in {"closed", "closed_1000"}) ~>
            (~InRegistry(Registry, w) /\ ~SessionInPools(w))

\* C22: a step that deletes a domain, cluster or channel pool leaves no member of
\* that pool with a valid transport: the pool was empty but for the session removed,
\* or what remained of it was a head whose transport is invalid.
C22_NoPoolDeletedWithLiveMember ==
    [][\A i \in 1..3 : \A id \in DOMAIN NodeMgr.pool[Levels[i]] :
          id \notin DOMAIN NodeMgr.pool[Levels[i]]' =>
              \A c \in SeqToSet(NodeMgr.pool[Levels[i]][id]) :
                  ~_is_websocket_valid(connection[c].websocket, closed_by_logout', wsState')]_vars

\* The sockets of the ClientConnections in the channel pool of socket w's channel
ChannelSessions(w) ==
    {connection[c].websocket : c \in SeqToSet(DictGet(channel_pool, wsMeta[w].channel_id))}
        \ {0}

\* The sockets the loop of the forward task has gone past
GoneBy(conns, i) == {connection[conns[j]].websocket : j \in 1..(i - 1)}

\* C23: when the forward task of a batch ends, every other session of the sender's
\* channel whose transport is open, and which the loop had not gone past before
\* this step, holds the forwarded batch with exactly the activities that passed the
\* URL filter.
C23_ForwardedToEveryPeer ==
    [][(forward_task.pc = "sending" /\ forward_task'.pc = "idle") =>
          \A x \in ChannelSessions(forward_task.source) \ {forward_task.source} :
              (/\ wsState[x] = "open"
               /\ x \notin GoneBy(DictGet(channel_pool, forward_task.channel_id),
                                  forward_task.i)) =>
                  /\ x \in DOMAIN batch_forward'
                  /\ batch_forward'[x] = forward_task.sync_data]_vars

\* C24: once the handler of a batch has created the forward task, the sender is
\* written its 'received and forwarded' feedback (unless its transport is gone) and
\* its message loop is back at reading frames, whatever the peers do.
C24_SourceNotCoupled ==
    \A w \in Sockets :
        (forward_task.source = w) ~>
            /\ forward_task.source # w
            /\ source_feedback[w] = "forwarded" \/ wsState[w] # "open"

\* C25: every batch record that is stored in pending_batches is eventually
\* deleted from it.
C25_BatchEventuallyDeleted ==
    \A batch_id \in BatchIds :
        (batch_id \in DOMAIN pending_batches) ~> (batch_id \notin DOMAIN pending_batches)

\* The registration of socket w is handled in this step
Registers(w) == wsState[w] = "new" /\ wsState'[w] # "new"

\* The first session of the bucket of the client that socket w registers for
ExistingOf(w) == DictGet(client_connections, wsMeta'[w].client_id)[1]

\* Socket w registers, with no pairing code, for a client whose session e is
\* connected on the same node with another user
ReRegisters(w, e) ==
    /\ Registers(w)
    /\ wsMeta'[w].user_id \notin security_codes
    /\ wsMeta'[w].client_id \in DOMAIN client_connections
    /\ e = ExistingOf(w)
    /\ wsState[e] = "open"
    /\ wsMeta[e].node_id = wsMeta'[w].node_id
    /\ wsMeta[e].user_id # wsMeta'[w].user_id

Duplicates(w, e) ==
    /\ Registers(w)
    /\ wsMeta'[w].user_id \notin security_codes
    /\ e # w
    /\ InRegistry(Registry, e)
    /\ Valid(e)
    /\ wsMeta[e].node_id = wsMeta'[w].node_id
    /\ wsMeta[e].client_id = wsMeta'[w].client_id
    /\ wsMeta[e].user_id = wsMeta'[w].user_id

\* C27: on an exact duplicate registration (same node_id, client_install_id and
\* user_id, existing connection still valid) the success acknowledgement is written
\* to the new socket, which is then closed with code 1000.
C27_DuplicateAckToNewSocket ==
    [][\A w \in Sockets : Registers(w) =>
          \A e \in Sockets : Duplicates(w, e) =>
              /\ registration_reply'[w] = registration_success(wsMeta'[w].user_id)
              /\ wsState'[w] = "closed_1000"]_vars

\* C27 (amended): on an exact duplicate registration the success acknowledgement is
\* written to the existing socket (if its transport is open); nothing is written
\* to the new socket, which is closed with code 1000 and leaves the registry.
C27_DuplicateAckToExisting ==
    [][\A w \in Sockets : Registers(w) =>
          \A e \in Sockets : Duplicates(w, e) =>
              /\ wsState[e] = "open" =>
                     registration_reply'[e] = registration_success(wsMeta'[w].user_id)
              /\ registration_reply'[w] = NoReply
              /\ wsState'[w] = "closed_1000"
              /\ ~InRegistry(Registry', w)
              /\ InRegistry(Registry', e)]_vars

C27_Witness ==
    \E e \in Sockets, w \in Sockets :
        /\ wsState[e] = "open" /\ wsState[w] = "closed_1000"
        /\ InRegistry(Registry, e) /\ ~InRegistry(Registry, w)
        /\ wsMeta[w].client_id = wsMeta[e].client_id
        /\ wsMeta[w].node_id = wsMeta[e].node_id
        /\ wsMeta[w].user_id = wsMeta[e].user_id
        /\ wsMeta[e].loop_user_id = wsMeta[e].user_id
        /\ registration_reply[e] = registration_success(wsMeta[e].user_id)
        /\ registration_reply[w] = NoReply

\* C28: at no time do two sessions with different node_ids share a bucket of
\* client_connections.
C28_ClientBoundToOneNode ==
    \A c \in DOMAIN client_connections :
        \A x \in SeqToSet(client_connections[c]), y \in SeqToSet(client_connections[c]) :
            wsMeta[x].node_id = wsMeta[y].node_id

\* The sessions of user u that are registered, connected and not being logged out
LiveSessionsOf(u) ==
    {x \in Sockets : /\ Live(x)
                     /\ wsMeta[x].user_id = u
                     /\ ~logout_in_progress[x]
                     /\ ~closed_by_logout[x]}

Solo(w) ==
    /\ \A x \in Sockets \ {w} : wsState[x] = "new"
    /\ wsState[w] = "open"
    /\ wsMeta[w].domain_id = None /\ wsMeta[w].cluster_id = None
    /\ wsMeta[w].channel_id = None
    /\ \A i \in 1..3 : future[<<w, Commands[i]>>] # "cancelled"

\* The ClientConnection of socket w is the only member of the pool of its tier id
\* at every level, and it has the three head flags
HeadOfOwnHierarchy(N, w) ==
    /\ \A i \in 1..3 :
          /\ IdOf(N.connection[w], Levels[i]) # None
          /\ N.pool[Levels[i]] =
                 DictPut(<<>>, IdOf(N.connection[w], Levels[i]), <<w>>)
    /\ N.connection[w].is_domain_main_node
    /\ N.connection[w].is_cluster_main_node
    /\ N.connection[w].is_channel_main_node

\* C30: solo join. With no other session connected, when the agent that registered
\* without hierarchy ids has answered new_domain_node, new_cluster_node and
\* new_channel_node with success, it is the head of a new domain, a new cluster and
\* a new channel (the only member of the three pools, the three head flags set),
\* and the bucket of its user in the registry holds exactly its session.
C30_SoloJoin ==
    [][\A w \in Connecting :
          (/\ Solo(w)
           /\ future[<<w, "new_channel_node">>] = "pending"
           /\ RpcResponse(w, "new_channel_node", TRUE)) =>
              /\ HeadOfOwnHierarchy(NodeMgr', w)
              /\ user_connections' = DictPut(<<>>, wsMeta[w].user_id, <<w>>)
              /\ nm_task'[w] = "done"
              /\ nodemanager_connection'[w] = w]_vars

C30_Witness ==
    \E w \in Connecting :
        /\ Solo(w)
        /\ future[<<w, "new_channel_node">>] = "resolved"
        /\ HeadOfOwnHierarchy(NodeMgr, w)
        /\ user_connections = DictPut(<<>>, wsMeta[w].user_id, <<w>>)

\* The node management task of socket w places the session in a channel in this step
JoinsChannel(w) ==
    /\ nm_task[w] \in {"rpc", "probe"}
    /\ \A id \in DOMAIN channel_pool : w \notin SeqToSet(channel_pool[id])
    /\ connection'[w].channel_id \in DOMAIN channel_pool'
    /\ w \in SeqToSet(channel_pool'[connection'[w].channel_id])

\* The members the parent tier had before the step: of the cluster when the session
\* made a channel of its own, of the channel when it joined one
ExistingPeers(w) ==
    IF connection'[w].is_channel_main_node
    THEN SeqToSet(DictGet(cluster_pool, connection'[w].cluster_id)) \ {w}
    ELSE SeqToSet(DictGet(channel_pool, connection'[w].channel_id)) \ {w}

\* The type of the advisory for the tier the session added
MatchingAdvisory(w) ==
    IF connection'[w].is_channel_main_node THEN "add_new_channel_to_peers"
    ELSE "add_new_node_to_peers"

\* C31: when a session has been placed in a channel, the peer-join advisory of the
\* matching tier has been written to every connected member the parent tier had:
\* add_new_channel_to_peers to the members of the cluster when the session made a
\* new channel, add_new_node_to_peers to the members of the channel it joined.
C31_PeersAdvised ==
    [][\A w \in Sockets :
          JoinsChannel(w) =>
              \A c \in ExistingPeers(w) :
                  wsState[connection[c].websocket] = "open" =>
                      [to |-> connection[c].websocket, type |-> MatchingAdvisory(w),
                       node_id |-> connection'[w].node_id] \in peer_advisory']_vars

\* The session of socket w joins the pool of the tier its assign_to call is for
JoinsTier(w) ==
    /\ assign[w].pc = "assign_to"
    /\ w \notin SeqToSet(DictGet(NodeMgr.pool[assign[w].level],
                                 assign[w].tier[assign[w].level]))
    /\ \E N1 \in {[pool |-> [domain |-> domain_pool', cluster |-> cluster_pool',
                            channel |-> channel_pool']]} :
          w \in SeqToSet(DictGet(N1.pool[assign[w].level],
                                 assign[w].tier[assign[w].level]))

\* C38: a session is assigned to a domain, cluster or channel only when the count of
\* the tier's peers was obtained: never after a count_peers that failed or timed out.
C38_FailedProbeBlocksAssignment ==
    [][\A w \in Sockets : JoinsTier(w) => assign[w].probe \notin {"failed", "timeout"}]_vars

\* The sockets that were sent user_logout by the barrier that is waiting, have lost
\* their transport since, and whose C-Client (client id c) has not been credited
AwaitedDisconnected(c) ==
    {t \in SeqToSet(lo.user_websockets) \cap user_logout_sent :
        /\ lo.pc = "wait"
        /\ wsState[t] # "open"
        /\ wsMeta[t].client_id = c
        /\ t \notin lo.feedback_received}

\* C32: a logout_feedback frame is matched by the client id it carries: when the
\* socket that was sent user_logout has disconnected and the frame arrives on
\* another socket of the same C-Client while the barrier waits, the frame is not
\* dropped as coming from an unknown connection.
C32_AckCreditedAfterDisconnect ==
    [][\A w \in Sockets :
          wsState[w] = "open" /\ AwaitedDisconnected(wsMeta[w].client_id) # {}
              => wsMeta[w].client_id \notin feedback_unmatched' \ feedback_unmatched]_vars

\* The request r of send_to_c_client has run into its 30 s timeout and its entry is
\* still in pending_requests
Expired(r) == r \in pending_requests /\ future[r] = "cancelled"

\* C33: an entry of pending_requests whose wait has timed out is eventually removed,
\* whether or not a reply for it ever arrives.
C33_ExpiredEntryRemoved ==
    \A r \in Requests : Expired(r) ~> r \notin pending_requests

\* The registration of socket w ends with the close of w (duplicate, re-registration
\* or rejection) while the session e, connected on the same node, stays
SurplusOf(w, e) ==
    /\ Registers(w)
    /\ wsState'[w] = "closed_1000"
    /\ e # w
    /\ wsState[e] = "open" /\ wsState'[e] = "open"
    /\ InRegistry(Registry, e)
    /\ wsMeta[e].node_id = wsMeta'[w].node_id

\* C34: closing the surplus new socket of a duplicate, re-registration or rejected
\* registration removes that socket only: the existing session on the same node
\* stays in the three registry indices and in every Domain, Cluster and Channel
\* pool and node index it was in.
C34_SurplusCloseKeepsSurvivor ==
    [][\A w \in Sockets : Registers(w) =>
          \A e \in Sockets : SurplusOf(w, e) =>
              /\ \E k \in DOMAIN node_connections' : e \in SeqToSet(node_connections'[k])
              /\ \E k \in DOMAIN user_connections' : e \in SeqToSet(user_connections'[k])
              /\ \E k \in DOMAIN client_connections' : e \in SeqToSet(client_connections'[k])
              /\ \A id \in DOMAIN domain_pool : e \in SeqToSet(domain_pool[id]) =>
                     /\ id \in DOMAIN domain_pool' /\ e \in SeqToSet(domain_pool'[id])
                     /\ DictGet(DictGet(domain_node_index', id), wsMeta[e].node_id) =
                            DictGet(DictGet(domain_node_index, id), wsMeta[e].node_id)
              /\ \A id \in DOMAIN cluster_pool : e \in SeqToSet(cluster_pool[id]) =>
                     /\ id \in DOMAIN cluster_pool' /\ e \in SeqToSet(cluster_pool'[id])
                     /\ DictGet(DictGet(cluster_node_index', id), wsMeta[e].node_id) =
                            DictGet(DictGet(cluster_node_index, id), wsMeta[e].node_id)
              /\ \A id \in DOMAIN channel_pool : e \in SeqToSet(channel_pool[id]) =>
                     /\ id \in DOMAIN channel_pool' /\ e \in SeqToSet(channel_pool'[id])
                     /\ DictGet(DictGet(channel_node_index', id), wsMeta[e].node_id) =
                            DictGet(DictGet(channel_node_index, id), wsMeta[e].node_id)]_vars

\* C35: the record taken as the joiner's in an attestation is the one the joining
\* session sent: an instance that waits for the joiner's record accepts a successful
\* cluster_verification_response only from the socket the attestation runs for.
C35_JoinerRecordFromJoiner ==
    [][\A req \in cv_requests \ cv_requests' : \A w \in Sockets :
          (/\ bk[w].pc = "joiner" /\ ~bk[w].is_set
           /\ bk'[w].is_set /\ bk'[w].pending.success)
              => req.to = w]_vars

\* C36: once the barrier has written user_logout to a socket, no auto_login frame is
\* written to that socket, also by a call of send_session_to_client that was
\* suspended in an await when the barrier started.
C36_NoAutoLoginAfterLogout ==
    [][\A x \in user_logout_sent : auto_login'[x] = auto_login[x]]_vars

\* The session_feedback frame of socket x is handled in this step
SessionAck(x) ==
    \E d \in Deliveries :
        x \notin feedback_tracking[d] /\ x \in feedback_tracking'[d]

\* C39: when two calls of send_session_to_client for the same user overlap, the
\* acknowledgement of a session is credited to every call that has written its
\* frame to that session and waits for the feedback.
C39_AckCreditedToEveryDelivery ==
    [][\A x \in Sockets : SessionAck(x) =>
          \A d \in Deliveries :
              (session_send[d].pc # "idle" /\ x \in session_send[d].successful_connections)
                  => x \in feedback_tracking'[d]]_vars

\* The entry of request r is taken out of pending_requests, or its future is
\* resolved, in this step
Settled(r) ==
    /\ r \in pending_requests
    /\ \/ r \notin pending_requests'
       \/ future[r] = "pending" /\ future'[r] = "resolved"

\* C37: a pending request is resolved, and its entry removed, only on a reply of the
\* session the request was sent to: in the step that handles such a reply, or when
\* the message loop of that session ends the processing of its late reply.
C37_ResolvedByAddresseeOnly ==
    [][\A r \in Requests :
          Settled(r) => \/ replies'[r] = replies[r] + 1
                        \/ late_parent[r[1]] = r[2]]_vars

\* The node ids of the connections in a pool's list
NodeIdsOf(conns) == {connection[conns[i]].node_id : i \in 1..Len(conns)}

\* C40: on every level the pool map and the node index stay in step: they have the
\* same tier ids, and for each tier the node ids of the connections in the pool's
\* list are the keys of the tier's index, each of which refers to a connection of
\* the list.
C40_PoolAndIndexInStep ==
    \A i \in 1..3 :
        /\ DOMAIN NodeMgr.pool[Levels[i]] = DOMAIN NodeMgr.index[Levels[i]]
        /\ \A id \in DOMAIN NodeMgr.pool[Levels[i]] \cap DOMAIN NodeMgr.index[Levels[i]] :
               /\ NodeIdsOf(NodeMgr.pool[Levels[i]][id]) = DOMAIN NodeMgr.index[Levels[i]][id]
               /\ \A n \in DOMAIN NodeMgr.index[Levels[i]][id] :
                      NodeMgr.index[Levels[i]][id][n] \in SeqToSet(NodeMgr.pool[Levels[i]][id])

====
